---- MODULE Spec2Model ----
(***************************************************************************)
(* A model of the "YouTube Transcript" Obsidian plugin.                    *)
(*                                                                         *)
(* Text is a sequence of one-character strings, so that the regular        *)
(* expressions and substring tests of the source are computed character    *)
(* by character.  An absent value (undefined, null) of a string is the     *)
(* empty sequence wherever the source only tests it for truthiness.        *)
(***************************************************************************)
EXTENDS Integers, Sequences, FiniteSets, TLC

(***************************************************************************)
(* Bounds of the model.                                                    *)
(***************************************************************************)
\* number of invocations of the command (sequential or overlapping)
MaxRuns == 2

\* length of the track lists given to selectTrack
MaxTracks == 3

\* number of <text> elements of the XML given to parseTranscriptXml
MaxElements == 2

\* number of times a character reference is wrapped in &amp;
MaxLevels == 2

\* number of pieces (links, URLs, words) in the body of a note
MaxPieces == 2

\* number of entries given to formatTranscript
MaxEntries == 2

(***************************************************************************)
(* Characters and string helpers (JavaScript String / RegExp primitives).  *)
(***************************************************************************)
Digits == {"0", "1", "2", "3", "4", "5", "6", "7", "8", "9"}

Lower == {"a", "b", "c", "d", "e", "f", "g", "h", "i", "j", "k", "l", "m",
          "n", "o", "p", "q", "r", "s", "t", "u", "v", "w", "x", "y", "z"}

Upper == {"A", "B", "C", "D", "E", "F", "G", "H", "I", "J", "K", "L", "M",
          "N", "O", "P", "Q", "R", "S", "T", "U", "V", "W", "X", "Y", "Z"}

\* a character class of a regular expression: [chars] or [^chars]
OneOf(chars) == [chars |-> chars, negated |-> FALSE]

NoneOf(chars) == [chars |-> chars, negated |-> TRUE]

InClass(class, c) == (c \in class.chars) # class.negated

\* [a-zA-Z0-9_-]
IdChar(c) == c \in Lower \cup Upper \cup Digits \cup {"_", "-"}

\* \w
WordChar == OneOf(Lower \cup Upper \cup Digits \cup {"_"})

\* \s
SpaceChars == {" ", "\n", "\t", "\r"}

SpaceChar == OneOf(SpaceChars)

SetMin(S) == CHOOSE x \in S : \A y \in S : x <= y

SetMax(S) == CHOOSE x \in S : \A y \in S : x >= y

\* the literal lit occurs in s at index i
MatchAt(s, i, lit) ==
    /\ i >= 1
    /\ i + Len(lit) - 1 <= Len(s)
    /\ \A k \in 1..Len(lit) : s[i + k - 1] = lit[k]

\* String.prototype.indexOf(lit, i), 1-based; 0 when there is none
IndexOfFrom(s, lit, i) ==
    LET hits == {j \in i..(Len(s) - Len(lit) + 1) : MatchAt(s, j, lit)}
    IN  IF hits = {} THEN 0 ELSE SetMin(hits)

\* String.prototype.includes
Includes(s, lit) == IndexOfFrom(s, lit, 1) # 0

\* String.prototype.startsWith
StartsWith(s, lit) == MatchAt(s, 1, lit)

\* Array.prototype.includes
InSeq(q, x) == \E i \in 1..Len(q) : q[i] = x

\* last index of the maximal run of characters of a class that starts at i
\* (i - 1 when s[i] is not of the class): a greedy  [class]*
RunEnd(s, i, class) ==
    LET stops == {j \in i..Len(s) : ~InClass(class, s[j])}
    IN  IF stops = {} THEN Len(s) ELSE SetMin(stops) - 1

RECURSIVE JoinWith(_, _)
\* Array.prototype.join
JoinWith(parts, sep) ==
    IF Len(parts) = 0 THEN <<>>
    ELSE IF Len(parts) = 1 THEN parts[1]
    ELSE parts[1] \o sep \o JoinWith(Tail(parts), sep)

(***************************************************************************)
(* Literals of the source.                                                 *)
(***************************************************************************)
HTTP == <<"h", "t", "t", "p">>

SCHEME_SEP == <<":", "/", "/">>

WWW == <<"w", "w", "w", ".">>

YOUTUBE == <<"y", "o", "u", "t", "u", "b", "e">>

YOUTUBE_COM == <<"y", "o", "u", "t", "u", "b", "e", ".", "c", "o", "m">>

YOUTU_BE == <<"y", "o", "u", "t", "u", ".", "b", "e">>

WATCH == <<"/", "w", "a", "t", "c", "h", "?", "v", "=">>

SLASH == <<"/">>

EMBED == <<"/", "e", "m", "b", "e", "d", "/">>

LEGACY_V == <<"/", "v", "/">>

SHORTS == <<"/", "s", "h", "o", "r", "t", "s", "/">>

SOURCE_KEY == <<"s", "o", "u", "r", "c", "e", ":">>

FM_OPEN == <<"-", "-", "-", "\n">>

FM_CLOSE == <<"\n", "-", "-", "-">>

NL == <<"\n">>

\* length of a video identifier
IdLen == 11

(***************************************************************************)
(* detector: extractVideoId                                                *)
(***************************************************************************)
VIDEO_ID_PATTERNS ==
    << YOUTUBE_COM \o WATCH,
       YOUTU_BE \o SLASH,
       YOUTUBE_COM \o EMBED,
       YOUTUBE_COM \o LEGACY_V,
       YOUTUBE_COM \o SHORTS >>

\* url.match(pattern)?.[1] for a pattern  (?:lit)([a-zA-Z0-9_-]{11}) : the
\* capture of the leftmost match, <<>> when the pattern does not match
MatchIdPattern(url, lit) ==
    LET hits == {j \in 1..Len(url) :
                    /\ MatchAt(url, j, lit)
                    /\ j + Len(lit) + IdLen - 1 <= Len(url)
                    /\ \A k \in 0..(IdLen - 1) : IdChar(url[j + Len(lit) + k])}
    IN  IF hits = {} THEN <<>>
        ELSE LET j == SetMin(hits)
             IN  SubSeq(url, j + Len(lit), j + Len(lit) + IdLen - 1)

RECURSIVE ExtractFrom(_, _)
ExtractFrom(url, p) ==
    IF p > Len(VIDEO_ID_PATTERNS) THEN <<>>
    ELSE LET m == MatchIdPattern(url, VIDEO_ID_PATTERNS[p])
         IN  IF m # <<>> THEN m ELSE ExtractFrom(url, p + 1)

\* extractVideoId: the identifier, or <<>> for null
extractVideoId(url) == ExtractFrom(url, 1)

(***************************************************************************)
(* detector: findYouTubeUrls                                               *)
(***************************************************************************)
\* url.replace(/[),.\]>]+$/, "")
TrimTrailing(url) ==
    LET keep == {j \in 1..Len(url) : url[j] \notin {")", ",", ".", "]", ">"}}
    IN  IF keep = {} THEN <<>> ELSE SubSeq(url, 1, SetMax(keep))

\* the closure addUrl: the membership test is on the untrimmed url, the
\* trimmed url is pushed
addUrl(urls, url) ==
    IF url # <<>> /\ ~InSeq(urls, url)
    THEN Append(urls, TrimTrailing(url))
    ELSE urls

\* index after  https?:\/\/  matched at i, 0 when it does not match
AfterScheme(s, i) ==
    IF MatchAt(s, i, HTTP \o SCHEME_SEP) THEN i + 7
    ELSE IF MatchAt(s, i, HTTP \o <<"s">> \o SCHEME_SEP) THEN i + 8
    ELSE 0

\* index after an optional  (?:www\.)?  at i
AfterWww(s, i) == IF MatchAt(s, i, WWW) THEN i + 4 ELSE i

\* content.match(/^---\n([\s\S]*?)\n---/)?.[1], <<>> when absent or empty
Frontmatter(content) ==
    IF ~MatchAt(content, 1, FM_OPEN) THEN <<>>
    ELSE LET j == IndexOfFrom(content, FM_CLOSE, 5)
         IN  IF j = 0 THEN <<>> ELSE SubSeq(content, 5, j - 1)

SourceValueChar == NoneOf(SpaceChars \cup {"\"", "'"})

\* the capture of  source:\s*["']?(https?:\/\/[^\s"'\n]+youtube[^\s"'\n]+)["']?
\* tried with "source:" at index p of fm; <<>> when it does not match there
SourceAt(fm, p) ==
    IF ~MatchAt(fm, p, SOURCE_KEY) THEN <<>>
    ELSE LET q  == RunEnd(fm, p + 7, SpaceChar) + 1
             u  == IF q <= Len(fm) /\ fm[q] \in {"\"", "'"} THEN q + 1 ELSE q
             a  == AfterScheme(fm, u)
             e  == RunEnd(fm, a, SourceValueChar)
         IN  IF a = 0 THEN <<>>
             ELSE IF \E k \in (a + 1)..(e - 7) : MatchAt(fm, k, YOUTUBE)
                  THEN SubSeq(fm, u, e)
                  ELSE <<>>

\* frontmatter.match(...)?.[1]: the leftmost match
SourceUrl(fm) ==
    LET hits == {p \in 1..Len(fm) : SourceAt(fm, p) # <<>>}
    IN  IF hits = {} THEN <<>> ELSE SourceAt(fm, SetMin(hits))

MdUrlChar == NoneOf(SpaceChars \cup {")"})

\* last index of  https?:\/\/(?:www\.)?(?:youtube\.com|youtu\.be)[^\s)]+
\* matched at u and followed by ")"; 0 when it does not match
MdUrlEnd(s, u) ==
    LET a == AfterScheme(s, u)
        w == AfterWww(s, a)
        h == IF MatchAt(s, w, YOUTUBE_COM) THEN w + 11
             ELSE IF MatchAt(s, w, YOUTU_BE) THEN w + 8
             ELSE 0
        e == RunEnd(s, h, MdUrlChar)
    IN  IF a = 0 \/ h = 0 THEN 0
        ELSE IF e >= h /\ e + 1 <= Len(s) /\ s[e + 1] = ")" THEN e
        ELSE 0

\* for "[" at index b: the index k of the "](" that the lazy  .*?  stops at,
\* 0 when no match starts with this bracket
MdClose(s, b) ==
    LET ks == {k \in (b + 1)..Len(s) :
                  /\ MatchAt(s, k, <<"]", "(">>)
                  /\ \A m \in (b + 1)..(k - 1) : s[m] \notin {"\n", "\r"}
                  /\ MdUrlEnd(s, k + 2) # 0}
    IN  IF ks = {} THEN 0 ELSE SetMin(ks)

RECURSIVE MarkdownUrls(_, _)
\* the captures of content.matchAll(markdownPattern) from index pos on
MarkdownUrls(s, pos) ==
    LET bs == {b \in pos..Len(s) : s[b] = "[" /\ MdClose(s, b) # 0}
    IN  IF bs = {} THEN <<>>
        ELSE LET k == MdClose(s, SetMin(bs))
                 e == MdUrlEnd(s, k + 2)
             IN  <<SubSeq(s, k + 2, e)>> \o MarkdownUrls(s, e + 2)

PlainTailChar == NoneOf(SpaceChars \cup {")", "]", ">"})

\* last index of a match of plainPattern that starts at i, 0 when none does
PlainEnd(s, i) ==
    LET a == AfterScheme(s, i)
        w == AfterWww(s, a)
        h == IF MatchAt(s, w, YOUTUBE_COM \o WATCH) THEN w + 20
             ELSE IF MatchAt(s, w, YOUTU_BE \o SLASH) THEN w + 9
             ELSE 0
    IN  IF a = 0 \/ h = 0 THEN 0
        ELSE IF /\ h + IdLen - 1 <= Len(s)
                /\ \A k \in 0..(IdLen - 1) : IdChar(s[h + k])
             THEN RunEnd(s, h + IdLen, PlainTailChar)
             ELSE 0

RECURSIVE PlainUrls(_, _)
\* the captures of content.matchAll(plainPattern) from index pos on
PlainUrls(s, pos) ==
    LET is == {i \in pos..Len(s) : PlainEnd(s, i) # 0}
    IN  IF is = {} THEN <<>>
        ELSE LET i == SetMin(is)
                 e == PlainEnd(s, i)
             IN  <<SubSeq(s, i, e)>> \o PlainUrls(s, e + 1)

RECURSIVE AddAll(_, _)
AddAll(urls, found) ==
    IF found = <<>> THEN urls
    ELSE AddAll(addUrl(urls, Head(found)), Tail(found))

\* mutant: the bare URLs are collected before the markdown links
findYouTubeUrls_BareBeforeMarkdown(content) ==
    LET fm     == Frontmatter(content)
        first  == IF fm # <<>> THEN addUrl(<<>>, SourceUrl(fm)) ELSE <<>>
        second == AddAll(first, PlainUrls(content, 1))
    IN  AddAll(second, MarkdownUrls(content, 1))

findYouTubeUrls(content) ==
    LET fm     == Frontmatter(content)
        first  == IF fm # <<>> THEN addUrl(<<>>, SourceUrl(fm)) ELSE <<>>
        second == AddAll(first, MarkdownUrls(content, 1))
    IN  AddAll(second, PlainUrls(content, 1))

(***************************************************************************)
(* Numbers.  A JavaScript number is modelled by an integer; NaN is an      *)
(* integer outside the range the model's inputs produce.                   *)
(***************************************************************************)
NaN == 0 - 2147483647

DigitVal(c) ==
    CASE c = "0" -> 0 [] c = "1" -> 1 [] c = "2" -> 2 [] c = "3" -> 3
      [] c = "4" -> 4 [] c = "5" -> 5 [] c = "6" -> 6 [] c = "7" -> 7
      [] c = "8" -> 8 [] c = "9" -> 9
      [] c \in {"a", "A"} -> 10 [] c \in {"b", "B"} -> 11
      [] c \in {"c", "C"} -> 12 [] c \in {"d", "D"} -> 13
      [] c \in {"e", "E"} -> 14 [] c \in {"f", "F"} -> 15

DigitChar(d) ==
    CASE d = 0 -> "0" [] d = 1 -> "1" [] d = 2 -> "2" [] d = 3 -> "3"
      [] d = 4 -> "4" [] d = 5 -> "5" [] d = 6 -> "6" [] d = 7 -> "7"
      [] d = 8 -> "8" [] d = 9 -> "9"

RECURSIVE ParseInt(_, _)
\* parseInt(s, radix) of a non-empty string of digits of that radix
ParseInt(s, radix) ==
    IF Len(s) = 0 THEN 0
    ELSE ParseInt(SubSeq(s, 1, Len(s) - 1), radix) * radix + DigitVal(s[Len(s)])

RECURSIVE NumberToString(_)
\* Number.prototype.toString() of an integer or NaN
NumberToString(n) ==
    IF n = NaN THEN <<"N", "a", "N">>
    ELSE IF n < 0 THEN <<"-">> \o NumberToString(0 - n)
    ELSE IF n < 10 THEN <<DigitChar(n)>>
    ELSE NumberToString(n \div 10) \o <<DigitChar(n % 10)>>

\* the % of JavaScript: the sign of the dividend
JsRem(a, b) == IF a >= 0 THEN a % b ELSE 0 - ((0 - a) % b)

IsDigit == OneOf(Digits)

\* parseFloat(s) * 1000 for a decimal literal prefix  [+-]?digits[.digits]  (no
\* exponent, no Infinity: the inputs of the model carry neither);
\* NaN when s has no such prefix.  Fraction digits after the third are
\* dropped (the inputs of the model carry at most three).
ParseFloatTimes1000(s) ==
    LET neg  == Len(s) >= 1 /\ s[1] = "-"
        b    == IF Len(s) >= 1 /\ s[1] \in {"-", "+"} THEN 2 ELSE 1
        ie   == RunEnd(s, b, IsDigit)
        dot  == ie + 1 <= Len(s) /\ s[ie + 1] = "."
        fe   == IF dot THEN RunEnd(s, ie + 2, IsDigit) ELSE ie + 1
        frac == IF dot THEN SubSeq(s, ie + 2, fe) ELSE <<>>
        f3   == SubSeq(frac \o <<"0", "0", "0">>, 1, 3)
        mag  == ParseInt(SubSeq(s, b, ie), 10) * 1000 + ParseInt(f3, 10)
    IN  IF ie < b /\ frac = <<>> THEN NaN
        ELSE IF neg THEN 0 - mag ELSE mag

(***************************************************************************)
(* formatter                                                               *)
(***************************************************************************)
\* n.toString().padStart(2, "0")
pad(n) ==
    LET s == NumberToString(n)
    IN  IF Len(s) < 2 THEN <<"0">> \o s ELSE s

\* mutant: the minutes are not reduced to 0..59
formatTimestamp_MinutesNotReduced(ms) ==
    LET totalSeconds == ms \div 1000
        hours        == totalSeconds \div 3600
        minutes      == totalSeconds \div 60
        seconds      == JsRem(totalSeconds, 60)
    IN  IF hours > 0
        THEN NumberToString(hours) \o <<":">> \o pad(minutes)
                 \o <<":">> \o pad(seconds)
        ELSE NumberToString(minutes) \o <<":">> \o pad(seconds)

formatTimestamp(ms) ==
    IF ms = NaN
    THEN NumberToString(NaN) \o <<":">> \o NumberToString(NaN)
    ELSE LET totalSeconds == ms \div 1000
             hours        == totalSeconds \div 3600
             minutes      == JsRem(totalSeconds, 3600) \div 60
             seconds      == JsRem(totalSeconds, 60)
         IN  IF hours > 0
             THEN NumberToString(hours) \o <<":">> \o pad(minutes)
                      \o <<":">> \o pad(seconds)
             ELSE NumberToString(minutes) \o <<":">> \o pad(seconds)

\* `[${formatTimestamp(entry.offset)}] ${entry.text}`
TimestampLine(entry) ==
    <<"[">> \o formatTimestamp(entry.offset) \o <<"]", " ">> \o entry.text

\* mutant: the paragraph form whatever includeTimestamps says
formatTranscript_AlwaysParagraph(entries, options) ==
    NL \o options.sectionHeading \o NL \o NL
       \o JoinWith([i \in 1..Len(entries) |-> entries[i].text], <<" ">>)

formatTranscript(entries, options) ==
    IF options.includeTimestamps
    THEN LET lines == [i \in 1..Len(entries) |-> TimestampLine(entries[i])]
         IN  NL \o options.sectionHeading \o NL \o NL \o JoinWith(lines, NL)
    ELSE LET texts == [i \in 1..Len(entries) |-> entries[i].text]
         IN  NL \o options.sectionHeading \o NL \o NL
                \o JoinWith(texts, <<" ">>)

\* mutant: the heading is looked for at the start of the note only
hasTranscriptSection_AtStart(content, sectionHeading) ==
    StartsWith(content, sectionHeading)

\* mutant: the heading is looked for at the end of the note only
hasTranscriptSection_AtEnd(content, sectionHeading) ==
    /\ Len(content) >= Len(sectionHeading)
    /\ SubSeq(content, Len(content) - Len(sectionHeading) + 1, Len(content))
         = sectionHeading

hasTranscriptSection(content, sectionHeading) ==
    Includes(content, sectionHeading)

(***************************************************************************)
(* parser: decodeXmlEntities, parseTranscriptXml                           *)
(***************************************************************************)
NAMED_ENTITIES ==
    [ n \in { <<"a", "m", "p">>, <<"l", "t">>, <<"g", "t">>,
              <<"q", "u", "o", "t">>, <<"a", "p", "o", "s">>,
              <<"n", "b", "s", "p">> } |->
        CASE n = <<"a", "m", "p">>      -> "&"
          [] n = <<"l", "t">>           -> "<"
          [] n = <<"g", "t">>           -> ">"
          [] n = <<"q", "u", "o", "t">> -> "\""
          [] n = <<"a", "p", "o", "s">> -> "'"
          [] n = <<"n", "b", "s", "p">> -> " " ]

\* String.fromCharCode for the code units the model names; any other code
\* unit is one character written U+<code>
fromCharCode(code) ==
    LET c == code % 65536
    IN  CASE c = 32 -> " "  [] c = 34 -> "\"" [] c = 35 -> "#"
          [] c = 38 -> "&"  [] c = 39 -> "'"  [] c = 59 -> ";"
          [] c = 60 -> "<"  [] c = 62 -> ">"  [] c = 65 -> "A"
          [] c = 97 -> "a"  [] c = 120 -> "x"
          [] c \in 48..57 -> DigitChar(c - 48)
          [] OTHER -> "U+" \o ToString(c)

HexChar == OneOf(Digits \cup {"a", "b", "c", "d", "e", "f",
                                "A", "B", "C", "D", "E", "F"})

\* one reference  &(?:#(\d+)|#x([a-fA-F0-9]+)|(\w+));  matched at index i:
\* [end |-> index of the ";", out |-> replacement], end = 0 when no match
RefAt(s, i) ==
    LET none == [end |-> 0, out |-> <<>>]
        de   == RunEnd(s, i + 2, IsDigit)
        he   == RunEnd(s, i + 3, HexChar)
        we   == RunEnd(s, i + 1, WordChar)
        semi(e) == e + 1 <= Len(s) /\ s[e + 1] = ";"
    IN  IF ~MatchAt(s, i, <<"&">>) THEN none
        ELSE IF MatchAt(s, i + 1, <<"#">>) /\ de >= i + 2 /\ semi(de)
        THEN [end |-> de + 1,
              out |-> <<fromCharCode(ParseInt(SubSeq(s, i + 2, de), 10))>>]
        ELSE IF MatchAt(s, i + 1, <<"#", "x">>) /\ he >= i + 3 /\ semi(he)
        THEN [end |-> he + 1,
              out |-> <<fromCharCode(ParseInt(SubSeq(s, i + 3, he), 16))>>]
        ELSE IF we >= i + 1 /\ semi(we)
        THEN LET named == SubSeq(s, i + 1, we)
                 \* NAMED_ENTITIES is an object literal: a name that is not
                 \* in the table is looked up in Object.prototype, and what
                 \* is found there is truthy and is returned, as a string
                 methods ==
                 { <<"t", "o", "S", "t", "r", "i", "n", "g">>,
                   <<"t", "o", "L", "o", "c", "a", "l", "e", "S", "t", "r",
                       "i", "n", "g">>,
                   <<"v", "a", "l", "u", "e", "O", "f">>,
                   <<"h", "a", "s", "O", "w", "n", "P", "r", "o", "p", "e",
                       "r", "t", "y">>,
                   <<"i", "s", "P", "r", "o", "t", "o", "t", "y", "p", "e",
                       "O", "f">>,
                   <<"p", "r", "o", "p", "e", "r", "t", "y", "I", "s", "E",
                       "n", "u", "m", "e", "r", "a", "b", "l", "e">>,
                   <<"_", "_", "d", "e", "f", "i", "n", "e", "G", "e", "t",
                       "t", "e", "r", "_", "_">>,
                   <<"_", "_", "d", "e", "f", "i", "n", "e", "S", "e", "t",
                       "t", "e", "r", "_", "_">>,
                   <<"_", "_", "l", "o", "o", "k", "u", "p", "G", "e", "t",
                       "t", "e", "r", "_", "_">>,
                   <<"_", "_", "l", "o", "o", "k", "u", "p", "S", "e", "t",
                       "t", "e", "r", "_", "_">> }
                 native(name) ==
                     <<"f", "u", "n", "c", "t", "i", "o", "n", " ">> \o name
                       \o <<"(", ")", " ", "{", " ", "[", "n", "a", "t", "i",
                            "v", "e", " ", "c", "o", "d", "e", "]", " ", "}">>
             IN  [end |-> we + 1,
                  out |-> IF named \in DOMAIN NAMED_ENTITIES
                          THEN <<NAMED_ENTITIES[named]>>
                          ELSE IF named = <<"c", "o", "n", "s", "t", "r",
                                              "u", "c", "t", "o", "r">>
                          THEN native(<<"O", "b", "j", "e", "c", "t">>)
                          ELSE IF named \in methods THEN native(named)
                          ELSE IF named = <<"_", "_", "p", "r", "o", "t",
                                              "o", "_", "_">>
                          THEN <<"[", "o", "b", "j", "e", "c", "t", " ", "O",
                                 "b", "j", "e", "c", "t", "]">>
                          ELSE SubSeq(s, i, we + 1)]
        ELSE none

RECURSIVE DecodeFrom(_, _)
DecodeFrom(s, i) ==
    IF i > Len(s) THEN <<>>
    ELSE LET r == RefAt(s, i)
         IN  IF r.end # 0 THEN r.out \o DecodeFrom(s, r.end + 1)
             ELSE <<s[i]>> \o DecodeFrom(s, i + 1)

\* the inner function decode: one pass of input.replace(/.../g, ...)
decode(input) == DecodeFrom(input, 1)

\* mutant: one decode pass
decodeXmlEntities_OnePass(text) == decode(text)

decodeXmlEntities(text) == decode(decode(text))

TEXT_OPEN == <<"<", "t", "e", "x", "t", " ", "s", "t", "a", "r", "t", "=", "\"">>

DUR_ATTR == <<"\"", " ", "d", "u", "r", "=", "\"">>

TAG_END == <<"\"", ">">>

TEXT_CLOSE == <<"<", "/", "t", "e", "x", "t", ">">>

NotQuote == NoneOf({"\""})

NotLt == NoneOf({"<"})

\* RE_XML_TRANSCRIPT matched at index i: the index of its last character
\* and the three captures; end = 0 when it does not match at i
XmlMatchAt(xml, i) ==
    LET none == [end |-> 0, start |-> <<>>, dur |-> <<>>, text |-> <<>>]
        s1 == i + Len(TEXT_OPEN)
        e1 == RunEnd(xml, s1, NotQuote)
        s2 == e1 + 1 + Len(DUR_ATTR)
        e2 == RunEnd(xml, s2, NotQuote)
        s3 == e2 + 1 + Len(TAG_END)
        e3 == RunEnd(xml, s3, NotLt)
    IN  IF ~MatchAt(xml, i, TEXT_OPEN) THEN none
        ELSE IF ~MatchAt(xml, e1 + 1, DUR_ATTR) THEN none
        ELSE IF ~MatchAt(xml, e2 + 1, TAG_END) THEN none
        ELSE IF ~MatchAt(xml, e3 + 1, TEXT_CLOSE) THEN none
        ELSE [end   |-> e3 + Len(TEXT_CLOSE),
              start |-> SubSeq(xml, s1, e1),
              dur   |-> SubSeq(xml, s2, e2),
              text  |-> SubSeq(xml, s3, e3)]

RECURSIVE XmlEntriesFrom_LastFirst(_, _, _)
\* mutant: each entry is put before the entries found so far
XmlEntriesFrom_LastFirst(xml, lang, pos) ==
    LET is == {i \in pos..Len(xml) : XmlMatchAt(xml, i).end # 0}
    IN  IF is = {} THEN <<>>
        ELSE LET m == XmlMatchAt(xml, SetMin(is))
                 rest == XmlEntriesFrom_LastFirst(xml, lang, m.end + 1)
             IN  IF m.start # <<>> /\ m.dur # <<>>
                 THEN rest \o << [offset   |-> ParseFloatTimes1000(m.start),
                                  duration |-> ParseFloatTimes1000(m.dur),
                                  text     |-> decodeXmlEntities(m.text),
                                  lang     |-> lang] >>
                 ELSE rest

RECURSIVE XmlEntriesFrom(_, _, _)
\* the loop over xml.matchAll(RE_XML_TRANSCRIPT)
XmlEntriesFrom(xml, lang, pos) ==
    LET is == {i \in pos..Len(xml) : XmlMatchAt(xml, i).end # 0}
    IN  IF is = {} THEN <<>>
        ELSE LET m == XmlMatchAt(xml, SetMin(is))
                 rest == XmlEntriesFrom(xml, lang, m.end + 1)
             IN  IF m.start # <<>> /\ m.dur # <<>>
                 THEN << [offset   |-> ParseFloatTimes1000(m.start),
                          duration |-> ParseFloatTimes1000(m.dur),
                          text     |-> decodeXmlEntities(m.text),
                          lang     |-> lang] >> \o rest
                 ELSE rest

\* mutant: no check of entries.length
parseTranscriptXml_EmptyReturned(xml, lang) ==
    [ok |-> TRUE, entries |-> XmlEntriesFrom(xml, lang, 1), error |-> ""]

\* parseTranscriptXml: [ok |-> TRUE, entries |-> ...] or the thrown error
parseTranscriptXml(xml, lang) ==
    LET entries == XmlEntriesFrom(xml, lang, 1)
    IN  IF Len(entries) = 0
        THEN [ok |-> FALSE, entries |-> <<>>,
              error |-> "No transcript entries found in response."]
        ELSE [ok |-> TRUE, entries |-> entries, error |-> ""]

(***************************************************************************)
(* transcript: the three network steps and the track selection.  A step    *)
(* that throws yields [ok |-> FALSE, error |-> message].                   *)
(***************************************************************************)
RECAPTCHA ==
    <<"c", "l", "a", "s", "s", "=", "\"", "g", "-", "r", "e", "c", "a", "p",
      "t", "c", "h", "a", "\"">>

KEY_PLAIN ==
    <<"\"", "I", "N", "N", "E", "R", "T", "U", "B", "E", "_", "A", "P", "I",
      "_", "K", "E", "Y", "\"", ":", "\"">>

KEY_ESCAPED ==
    <<"I", "N", "N", "E", "R", "T", "U", "B", "E", "_", "A", "P", "I", "_",
      "K", "E", "Y", "\\", "\"", ":", "\\", "\"">>

FMT_PARAM == <<"&", "f", "m", "t", "=">>

WATCH_URL ==
    <<"h", "t", "t", "p", "s", ":", "/", "/", "w", "w", "w", ".", "y", "o",
      "u", "t", "u", "b", "e", ".", "c", "o", "m", "/", "w", "a", "t", "c",
      "h", "?", "v", "=">>

PLAYER_URL ==
    <<"h", "t", "t", "p", "s", ":", "/", "/", "w", "w", "w", ".", "y", "o",
      "u", "t", "u", "b", "e", ".", "c", "o", "m", "/", "y", "o", "u", "t",
      "u", "b", "e", "i", "/", "v", "1", "/", "p", "l", "a", "y", "e", "r",
      "?", "k", "e", "y", "=">>

Thrown(message) == [ok |-> FALSE, error |-> message]

NotBackslashQuote == NoneOf({"\\", "\""})

\* response.text.match(/"INNERTUBE_API_KEY":"([^"]+)"/)?.[1], <<>> for none
KeyMatchPlain(text) ==
    LET hits == {i \in 1..Len(text) :
                    /\ MatchAt(text, i, KEY_PLAIN)
                    /\ LET s == i + Len(KEY_PLAIN)
                           e == RunEnd(text, s, NotQuote)
                       IN  e >= s /\ MatchAt(text, e + 1, <<"\"">>)}
    IN  IF hits = {} THEN <<>>
        ELSE LET s == SetMin(hits) + Len(KEY_PLAIN)
             IN  SubSeq(text, s, RunEnd(text, s, NotQuote))

\* response.text.match(/INNERTUBE_API_KEY\\":\\"([^\\"]+)\\"/)?.[1]
KeyMatchEscaped(text) ==
    LET hits == {i \in 1..Len(text) :
                    /\ MatchAt(text, i, KEY_ESCAPED)
                    /\ LET s == i + Len(KEY_ESCAPED)
                           e == RunEnd(text, s, NotBackslashQuote)
                       IN  e >= s /\ MatchAt(text, e + 1, <<"\\", "\"">>)}
    IN  IF hits = {} THEN <<>>
        ELSE LET s == SetMin(hits) + Len(KEY_ESCAPED)
             IN  SubSeq(text, s, RunEnd(text, s, NotBackslashQuote))

\* mutant: the key is looked for before the bot-challenge marker
extractApiKey_KeyBeforeMarker(response) ==
    LET plain == KeyMatchPlain(response.text)
        match == IF plain # <<>> THEN plain
                 ELSE KeyMatchEscaped(response.text)
    IN  IF match # <<>>
        THEN [ok |-> TRUE, error |-> "", apiKey |-> match]
        ELSE IF Includes(response.text, RECAPTCHA)
        THEN Thrown("YouTube is receiving too many requests. Try again later.")
        ELSE Thrown("Could not find YouTube API key. Video may not be available.")

\* extractApiKey after its request returned
extractApiKey(response) ==
    IF Includes(response.text, RECAPTCHA)
    THEN Thrown("YouTube is receiving too many requests. Try again later.")
    ELSE LET plain == KeyMatchPlain(response.text)
             match == IF plain # <<>> THEN plain
                      ELSE KeyMatchEscaped(response.text)
         IN  IF match = <<>>
             THEN Thrown("Could not find YouTube API key. Video may not be available.")
             ELSE [ok |-> TRUE, error |-> "", apiKey |-> match]

\* an absent playerCaptionsTracklistRenderer
NoTracklist == [present |-> FALSE, isArray |-> FALSE, captionTracks |-> <<>>]

\* mutant: the two messages of the missing listing are the wrong way round
fetchCaptionTracks_PlayableInverted(response) ==
    IF response.status # 200
    THEN Thrown("Failed to fetch video information from YouTube.")
    ELSE LET json == response.json
             nested == IF json.captions.present
                       THEN json.captions.playerCaptionsTracklistRenderer
                       ELSE NoTracklist
             tracklist == IF nested.present THEN nested
                          ELSE json.playerCaptionsTracklistRenderer
         IN  IF ~json.captions.present \/ ~tracklist.present
             THEN IF json.playabilityStatus = "OK"
                  THEN Thrown("No transcripts available for this video.")
                  ELSE Thrown("Transcripts are disabled for this video.")
             ELSE IF ~tracklist.isArray \/ Len(tracklist.captionTracks) = 0
                  THEN Thrown("No caption tracks found for this video.")
                  ELSE [ok |-> TRUE, error |-> "",
                        tracks |-> tracklist.captionTracks]

\* fetchCaptionTracks after its request returned.  response.json is
\*   [captions |-> [present, playerCaptionsTracklistRenderer],
\*    playerCaptionsTracklistRenderer, playabilityStatus]
\* and a tracklist is [present, isArray, captionTracks].
fetchCaptionTracks(response) ==
    IF response.status # 200
    THEN Thrown("Failed to fetch video information from YouTube.")
    ELSE LET json == response.json
             nested == IF json.captions.present
                       THEN json.captions.playerCaptionsTracklistRenderer
                       ELSE NoTracklist
             tracklist == IF nested.present THEN nested
                          ELSE json.playerCaptionsTracklistRenderer
         IN  IF ~json.captions.present \/ ~tracklist.present
             THEN LET isPlayable == json.playabilityStatus = "OK"
                  IN  IF isPlayable
                      THEN Thrown("Transcripts are disabled for this video.")
                      ELSE Thrown("No transcripts available for this video.")
             ELSE LET tracks == tracklist.captionTracks
                  IN  IF ~tracklist.isArray \/ Len(tracks) = 0
                      THEN Thrown("No caption tracks found for this video.")
                      ELSE [ok |-> TRUE, error |-> "", tracks |-> tracks]

\* Array.prototype.find as an index: the first of the indexes that satisfy
\* the callback, 0 when none does
FindIndex(hits) == IF hits = {} THEN 0 ELSE SetMin(hits)

\* lang.split("-")[0]
BaseLang(lang) ==
    LET d == IndexOfFrom(lang, <<"-">>, 1)
    IN  IF d = 0 THEN lang ELSE SubSeq(lang, 1, d - 1)

\* mutant: the base-language match is tried before the exact match
selectTrackIndex_BaseFirst(tracks, lang) ==
    LET exact == FindIndex({i \in 1..Len(tracks) :
                               tracks[i].languageCode = lang})
        base  == FindIndex({i \in 1..Len(tracks) :
                               StartsWith(tracks[i].languageCode, BaseLang(lang))})
    IN  IF base # 0 THEN base
        ELSE IF exact # 0 THEN exact
        ELSE IF Len(tracks) >= 1 THEN 1
        ELSE 0

\* selectTrack as the index of the chosen track, 0 when it throws
selectTrackIndex(tracks, lang) ==
    LET exact == FindIndex({i \in 1..Len(tracks) :
                               tracks[i].languageCode = lang})
        base  == FindIndex({i \in 1..Len(tracks) :
                               StartsWith(tracks[i].languageCode, BaseLang(lang))})
    IN  IF exact # 0 THEN exact
        ELSE IF base # 0 THEN base
        ELSE IF Len(tracks) >= 1 THEN 1
        ELSE 0

selectTrack(tracks, lang) ==
    LET i == selectTrackIndex(tracks, lang)
    IN  IF i = 0 THEN Thrown("No suitable caption track found.")
        ELSE [ok |-> TRUE, error |-> "", track |-> tracks[i]]

NotAmp == NoneOf({"&"})

\* url.replace(/&fmt=[^&]+/, ""): the first match only
StripFmt(url) ==
    LET hits == {i \in 1..Len(url) :
                    /\ MatchAt(url, i, FMT_PARAM)
                    /\ RunEnd(url, i + Len(FMT_PARAM), NotAmp) >= i + Len(FMT_PARAM)}
    IN  IF hits = {} THEN url
        ELSE LET i == SetMin(hits)
                 e == RunEnd(url, i + Len(FMT_PARAM), NotAmp)
             IN  SubSeq(url, 1, i - 1) \o SubSeq(url, e + 1, Len(url))

\* fetchTranscriptXml up to its request: the URL requested, or the throw
TranscriptUrl(track) ==
    LET url == IF track.baseUrl # <<>> THEN track.baseUrl ELSE track.url
    IN  IF url = <<>>
        THEN Thrown("No transcript URL found in caption track.")
        ELSE [ok |-> TRUE, error |-> "", url |-> StripFmt(url)]

\* mutant: an empty body is returned
fetchTranscriptXml_EmptyBodyReturned(response) ==
    IF response.status = 429
    THEN Thrown("Too many requests. Please try again later.")
    ELSE IF response.status # 200
    THEN Thrown("Failed to fetch transcript from YouTube.")
    ELSE [ok |-> TRUE, error |-> "", xml |-> response.text]

\* fetchTranscriptXml after its request returned
fetchTranscriptXml(response) ==
    IF response.status = 429
    THEN Thrown("Too many requests. Please try again later.")
    ELSE IF response.status # 200 \/ response.text = <<>>
    THEN Thrown("Failed to fetch transcript from YouTube.")
    ELSE [ok |-> TRUE, error |-> "", xml |-> response.text]

(***************************************************************************)
(* The inputs of the model: notes, settings, and what the network and the  *)
(* vault may answer.                                                       *)
(***************************************************************************)
VideoIdA == <<"d", "Q", "w", "4", "w", "9", "W", "g", "X", "c", "Q">>

HEADING == <<"#", "#", " ", "T", "r", "a", "n", "s", "c", "r", "i", "p", "t">>

DEFAULT_SETTINGS ==
    [language |-> <<"e", "n">>, includeTimestamps |-> FALSE,
     sectionHeading |-> HEADING]

\* what loadSettings may leave in this.settings
SettingsChoices ==
    { DEFAULT_SETTINGS,
      [language |-> <<>>, includeTimestamps |-> TRUE,
       sectionHeading |-> <<"#">>],
      [language |-> <<"f", "r">>, includeTimestamps |-> FALSE,
       sectionHeading |-> <<>>] }

NoteBare == <<"W", "a", "t", "c", "h", " ">> \o WATCH_URL \o VideoIdA

NoteFront ==
    <<"-", "-", "-", "\n", "s", "o", "u", "r", "c", "e", ":", " ">>
        \o WATCH_URL \o VideoIdA \o <<"\n", "-", "-", "-", "\n">>

NotePlain == <<"n", "o", "t", "e", "s">>

NoteDone == WATCH_URL \o VideoIdA \o NL \o HEADING \o NL

NoteHeadingOnly == <<"a", " ">> \o HEADING

NoteNoId ==
    <<"[", "v", "]", "(", "h", "t", "t", "p", "s", ":", "/", "/", "y", "o",
      "u", "t", "u", ".", "b", "e", "/", "s", "h", "o", "r", "t", ")">>

Notes == {NoteBare, NoteFront, NotePlain, NoteDone, NoteHeadingOnly, NoteNoId}

NoJson ==
    [captions |-> [present |-> FALSE,
                   playerCaptionsTracklistRenderer |-> NoTracklist],
     playerCaptionsTracklistRenderer |-> NoTracklist,
     playabilityStatus |-> ""]

NoResponse == [status |-> 0, text |-> <<>>, json |-> NoJson]

\* a video page: the bot-challenge marker or not, a key in the plain
\* encoding (<<>> for an empty value), a key in the escaped encoding, and
\* which encoding comes first in the page.  "-" for a key: no such token.
PageText(marker, plainKey, escapedKey, escapedFirst) ==
    LET m == IF marker THEN RECAPTCHA ELSE <<>>
        p == IF plainKey = <<"-">> THEN <<"<", "p", ">">>
             ELSE KEY_PLAIN \o plainKey \o <<"\"">>
        e == IF escapedKey = <<"-">> THEN <<"<", "e", ">">>
             ELSE KEY_ESCAPED \o escapedKey \o <<"\\", "\"">>
    IN  IF escapedFirst THEN e \o m \o p ELSE p \o m \o e

Response(status, text, json) == [status |-> status, text |-> text, json |-> json]

KeyA == <<"A", "1">>

KeyB == <<"B", "_">>

NoKey == <<"-">>

\* the pages the video-page request answers with in a run
PageResponses ==
    { Response(200, PageText(TRUE, KeyA, NoKey, FALSE), NoJson),
      Response(200, PageText(FALSE, KeyA, NoKey, FALSE), NoJson),
      Response(200, PageText(FALSE, <<>>, KeyB, TRUE), NoJson),
      Response(404, PageText(FALSE, <<>>, NoKey, FALSE), NoJson) }

TrackEn ==
    [baseUrl |-> <<"t", "?", "v", "=", "1", "&", "f", "m", "t", "=", "3">>,
     url |-> <<>>, languageCode |-> <<"e", "n">>]

TrackFr ==
    [baseUrl |-> <<>>, url |-> <<"t", "?", "v", "=", "2">>,
     languageCode |-> <<"f", "r">>]

TrackNoUrl == [baseUrl |-> <<>>, url |-> <<>>, languageCode |-> <<"d", "e">>]

Tracklist(isArray, tracks) ==
    [present |-> TRUE, isArray |-> isArray, captionTracks |-> tracks]

PlayerJson(captions, nested, top, playability) ==
    [captions |-> [present |-> captions,
                   playerCaptionsTracklistRenderer |-> nested],
     playerCaptionsTracklistRenderer |-> top,
     playabilityStatus |-> playability]

\* the answers of the player API in a run
PlayerResponses ==
    { Response(500, <<>>, NoJson),
      Response(200, <<>>, PlayerJson(FALSE, NoTracklist, NoTracklist, "OK")),
      Response(200, <<>>, PlayerJson(FALSE, NoTracklist, NoTracklist, "ERROR")),
      Response(200, <<>>, PlayerJson(TRUE, Tracklist(TRUE, <<>>), NoTracklist, "OK")),
      Response(200, <<>>, PlayerJson(TRUE, Tracklist(TRUE, <<TrackFr, TrackEn>>),
                                     NoTracklist, "OK")),
      Response(200, <<>>, PlayerJson(TRUE, Tracklist(TRUE, <<TrackNoUrl>>),
                                     NoTracklist, "OK")) }

XmlText(start, dur, text) ==
    TEXT_OPEN \o start \o DUR_ATTR \o dur \o TAG_END \o text \o TEXT_CLOSE

XmlGood ==
    XmlText(<<"0">>, <<"2">>,
            <<"W", "e", "&", "a", "m", "p", ";", "#", "3", "9", ";", "r", "e">>)
        \o XmlText(<<"3", "7", "2", "5", ".", "5">>, <<"1">>, <<"o", "k">>)

XmlNoEntries ==
    <<"<", "t", "r", "a", "n", "s", "c", "r", "i", "p", "t", "/", ">">>

\* the answers of the caption URL in a run
XmlResponses ==
    { Response(429, <<>>, NoJson),
      Response(500, XmlGood, NoJson),
      Response(200, <<>>, NoJson),
      Response(200, XmlNoEntries, NoJson),
      Response(200, XmlGood, NoJson) }

\* what a rejected promise of the host may carry: an Error, or another value
Rejections ==
    { [isError |-> TRUE, message |-> "net::ERR_FAILED"],
      [isError |-> FALSE, message |-> ""] }

(***************************************************************************)
(* The command: YouTubeTranscriptPlugin.fetchTranscriptForCurrentNote.     *)
(* Every invocation is a run; a run advances from one await to the next,   *)
(* and what the code does between two awaits is one step.                  *)
(***************************************************************************)
VARIABLES
    note,      \* the text of the active note in the vault
    settings,  \* this.settings
    run,       \* per invocation: its position, locals and what it has done
    call       \* a single call of one function of transcript.ts

vars == <<note, settings, run, call>>

Runs == 1..MaxRuns

NoTrack == [baseUrl |-> <<>>, url |-> <<>>, languageCode |-> <<>>]

NoCall == [fn |-> "none"]

\* an invocation that has not been made yet
NewRun ==
    [pc         |-> "NotStarted",
     trail      |-> <<>>,     \* the stages of the orchestrator passed so far
     content    |-> <<>>,
     videoId    |-> <<>>,
     lang       |-> <<>>,
     apiKey     |-> <<>>,
     track      |-> NoTrack,
     transcript |-> <<>>,
     data       |-> <<>>,     \* the text handed to vault.modify
     requests   |-> <<>>,     \* the requestUrl calls made, in order
     inflight   |-> 0,        \* requestUrl calls not yet answered
     notices    |-> <<>>,     \* the Notices shown, in order
     reads      |-> 0,        \* vault.read calls
     modifies   |-> 0,        \* vault.modify calls
     wrote      |-> FALSE,    \* a vault.modify of this run replaced the note
     caught     |-> "",       \* the message of the error the catch block got
     unhandled  |-> FALSE]    \* the promise of the run was rejected

Notify(rec, message) == [rec EXCEPT !.notices = Append(@, message)]

Enter(rec, stage) == [rec EXCEPT !.trail = Append(@, stage)]

\* new Notice(message); return
Abort(rec, message) ==
    [Enter(Notify(rec, message), "Aborted") EXCEPT !.pc = "Aborted"]

\* the catch block of fetchTranscriptForCurrentNote
Catch(rec, thrown) ==
    LET message == IF thrown.isError THEN thrown.message ELSE "Unknown error"
    IN  [Abort(rec, "Failed to fetch transcript: " \o message)
            EXCEPT !.caught = message]

\* an Error thrown by the code of transcript.ts or parser.ts
ErrorOf(result) == [isError |-> TRUE, message |-> result.error]

\* requestUrl(...) up to its await
Request(rec, method, url) ==
    [rec EXCEPT !.requests = Append(@, [method |-> method, url |-> url]),
                !.inflight = @ + 1]

Received(rec) == [rec EXCEPT !.inflight = @ - 1]

Init ==
    /\ note \in Notes
    /\ settings \in SettingsChoices
    /\ run = [r \in Runs |-> NewRun]
    /\ call = NoCall

\* checkCallback(false) and fetchTranscriptForCurrentNote up to vault.read
Invoke(r) ==
    /\ run[r].pc = "NotStarted"
    /\ \A q \in 1..(r - 1) : run[q].pc # "NotStarted"
    /\ \E hasFile \in BOOLEAN :
          run' = [run EXCEPT ![r] =
                    IF ~hasFile
                    THEN Abort(Enter(@, "Idle"), "No active Markdown file")
                    ELSE [Enter(@, "Idle") EXCEPT !.pc = "Reading",
                                                   !.reads = @ + 1]]
    /\ UNCHANGED <<note, settings, call>>

\* const videoId = extractVideoId(firstUrl) and on, to the await in
\* extractApiKey
WithVideoId(rec, videoId) ==
    IF videoId = <<>>
    THEN Abort(rec, "Could not extract video ID from URL")
    ELSE [Request(Notify(Enter(rec, "Fetching"), "Fetching transcript..."),
                  "GET", WATCH_URL \o videoId)
            EXCEPT !.pc = "AwaitPage", !.videoId = videoId,
                   !.lang = IF settings.language # <<>> THEN settings.language
                            ELSE <<"e", "n">>]

\* const firstUrl = urls[0] and on
WithUrls(rec, urls) ==
    IF Len(urls) = 0 \/ urls[1] = <<>>
    THEN Abort(rec, "No YouTube URL found in this note")
    ELSE WithVideoId(Enter(rec, "ExtractingId"), extractVideoId(urls[1]))

\* mutant: the URL detection comes before the presence check
AfterRead_DetectsFirst(rec, content) ==
    IF findYouTubeUrls(content) = <<>>
    THEN Abort(Enter([rec EXCEPT !.content = content], "DetectingReference"),
               "No YouTube URL found in this note")
    ELSE IF hasTranscriptSection(content, settings.sectionHeading)
    THEN Abort([rec EXCEPT !.content = content],
               "This note already has a transcript section")
    ELSE WithUrls(Enter([rec EXCEPT !.content = content], "DetectingReference"),
                  findYouTubeUrls(content))

\* from the return of vault.read to the await in extractApiKey
AfterRead(rec, content) ==
    IF hasTranscriptSection(content, settings.sectionHeading)
    THEN Abort([rec EXCEPT !.content = content],
               "This note already has a transcript section")
    ELSE WithUrls(Enter([rec EXCEPT !.content = content], "DetectingReference"),
                  findYouTubeUrls(content))

ReadReturns(r) ==
    /\ run[r].pc = "Reading"
    /\ run' = [run EXCEPT ![r] = AfterRead(@, note)]
    /\ UNCHANGED <<note, settings, call>>

\* vault.read rejects: the await is outside the try block
ReadFails(r) ==
    /\ run[r].pc = "Reading"
    /\ run' = [run EXCEPT ![r] =
                 [Enter(@, "Aborted") EXCEPT !.pc = "Aborted",
                                              !.unhandled = TRUE]]
    /\ UNCHANGED <<note, settings, call>>

\* const tracks = await fetchCaptionTracks(videoId, apiKey), up to its await
WithApiKey(rec, key) ==
    IF ~key.ok THEN Catch(rec, ErrorOf(key))
    ELSE [Request(rec, "POST", PLAYER_URL \o key.apiKey)
            EXCEPT !.pc = "AwaitPlayer", !.apiKey = key.apiKey]

\* from the page response to the await in fetchCaptionTracks
PageResponse(r) ==
    /\ run[r].pc = "AwaitPage"
    /\ \E response \in PageResponses :
          run' = [run EXCEPT ![r] = WithApiKey(Received(@), extractApiKey(response))]
    /\ UNCHANGED <<note, settings, call>>

\* the request of fetchTranscriptXml, or its throw before the request
WithTranscriptUrl(rec, target) ==
    IF ~target.ok THEN Catch(rec, ErrorOf(target))
    ELSE [Request(rec, "GET", target.url) EXCEPT !.pc = "AwaitXml"]

\* const xml = await fetchTranscriptXml(track, lang), up to its await
WithTrack(rec, chosen) ==
    IF ~chosen.ok THEN Catch(rec, ErrorOf(chosen))
    ELSE WithTranscriptUrl([rec EXCEPT !.track = chosen.track],
                           TranscriptUrl(chosen.track))

\* const track = selectTrack(tracks, lang) and on
WithTracks(rec, listed) ==
    IF ~listed.ok THEN Catch(rec, ErrorOf(listed))
    ELSE WithTrack(rec, selectTrack(listed.tracks, rec.lang))

\* from the player response to the await in fetchTranscriptXml
PlayerResponse(r) ==
    /\ run[r].pc = "AwaitPlayer"
    /\ \E response \in PlayerResponses :
          run' = [run EXCEPT ![r] = WithTracks(Received(@), fetchCaptionTracks(response))]
    /\ UNCHANGED <<note, settings, call>>

\* mutant: the newline between the note and the fragment is left out
WithFormatted_NoNewline(rec, formatted) ==
    [Enter(rec, "Formatting")
        EXCEPT !.pc = "Writing",
               !.data = rec.content \o formatted,
               !.modifies = @ + 1]

\* mutant: the text to write is built from the note as it is now
WithFormatted_RereadsNote(rec, formatted) ==
    [Enter(rec, "Formatting")
        EXCEPT !.pc = "Writing",
               !.data = note \o NL \o formatted,
               !.modifies = @ + 1]

\* the call of vault.modify(file, content + "\n" + formatted)
WithFormatted(rec, formatted) ==
    [Enter(rec, "Formatting")
        EXCEPT !.pc = "Writing",
               !.data = rec.content \o NL \o formatted,
               !.modifies = @ + 1]

\* back in fetchTranscriptForCurrentNote with the result of fetchTranscript
WithTranscript(rec, parsed) ==
    IF ~parsed.ok THEN Catch(rec, ErrorOf(parsed))
    ELSE IF Len(parsed.entries) = 0
    THEN Abort(rec, "No transcript entries found")
    ELSE WithFormatted([rec EXCEPT !.transcript = parsed.entries],
             formatTranscript(parsed.entries,
                 [includeTimestamps |-> settings.includeTimestamps,
                  sectionHeading    |-> settings.sectionHeading]))

\* mutant: fetchTranscript returns no entries where the parser throws
WithXml_EmptyInsteadOfThrow(rec, fetched) ==
    IF ~fetched.ok THEN Catch(rec, ErrorOf(fetched))
    ELSE WithTranscript(rec,
             [ok |-> TRUE, error |-> "",
              entries |-> parseTranscriptXml(fetched.xml,
                                             rec.track.languageCode).entries])

\* return parseTranscriptXml(xml, track.languageCode)
WithXml(rec, fetched) ==
    IF ~fetched.ok THEN Catch(rec, ErrorOf(fetched))
    ELSE WithTranscript(rec,
             parseTranscriptXml(fetched.xml, rec.track.languageCode))

\* from the caption response to the await of vault.modify
XmlResponse(r) ==
    /\ run[r].pc = "AwaitXml"
    /\ \E response \in XmlResponses :
          run' = [run EXCEPT ![r] = WithXml(Received(@), fetchTranscriptXml(response))]
    /\ UNCHANGED <<note, settings, call>>

\* mutant: a rejected request is sent again
RequestFails_Retries(r) ==
    /\ run[r].pc \in {"AwaitPage", "AwaitPlayer", "AwaitXml"}
    /\ LET last == run[r].requests[Len(run[r].requests)]
       IN  run' = [run EXCEPT ![r] = Request(Received(@), last.method, last.url)]
    /\ UNCHANGED <<note, settings, call>>

\* requestUrl rejects
RequestFails(r) ==
    /\ run[r].pc \in {"AwaitPage", "AwaitPlayer", "AwaitXml"}
    /\ \E thrown \in Rejections :
          run' = [run EXCEPT ![r] = Catch(Received(@), thrown)]
    /\ UNCHANGED <<note, settings, call>>

\* vault.modify resolves: `Transcript added (${transcript.length} entries)`
AfterModify(rec) ==
    [Enter(Notify(rec, "Transcript added (" \o ToString(Len(rec.transcript))
                          \o " entries)"), "Done")
        EXCEPT !.pc = "Done", !.wrote = TRUE]

\* mutant: the write appends the fragment to the note as it is now
ModifyReturns_AppendsToNote(r) ==
    /\ run[r].pc = "Writing"
    /\ note' = note \o SubSeq(run[r].data, Len(run[r].content) + 1,
                              Len(run[r].data))
    /\ run' = [run EXCEPT ![r] = AfterModify(@)]
    /\ UNCHANGED <<settings, call>>

ModifyReturns(r) ==
    /\ run[r].pc = "Writing"
    /\ note' = run[r].data
    /\ run' = [run EXCEPT ![r] = AfterModify(@)]
    /\ UNCHANGED <<settings, call>>

\* mutant: a rejected vault.modify has replaced the note all the same
ModifyFails_NoteReplaced(r) ==
    /\ run[r].pc = "Writing"
    /\ note' = run[r].data
    /\ \E thrown \in Rejections :
          run' = [run EXCEPT ![r] = Catch(@, thrown)]
    /\ UNCHANGED <<settings, call>>

\* mutant: after a rejected vault.modify the run waits for the write again
ModifyFails_WritesAgain(r) ==
    /\ run[r].pc = "Writing"
    /\ \E thrown \in Rejections :
          run' = [run EXCEPT ![r].caught =
                    IF thrown.isError THEN thrown.message
                    ELSE "Unknown error"]
    /\ UNCHANGED <<note, settings, call>>

\* vault.modify rejects
ModifyFails(r) ==
    /\ run[r].pc = "Writing"
    /\ \E thrown \in Rejections :
          run' = [run EXCEPT ![r] = Catch(@, thrown)]
    /\ UNCHANGED <<note, settings, call>>

Next ==
    \E r \in Runs :
        \/ Invoke(r)
        \/ ReadReturns(r)
        \/ ReadFails(r)
        \/ PageResponse(r)
        \/ PlayerResponse(r)
        \/ XmlResponse(r)
        \/ RequestFails(r)
        \/ ModifyReturns(r)
        \/ ModifyFails(r)

Spec == Init /\ [][Next]_vars

(***************************************************************************)
(* Properties of the command.                                              *)
(***************************************************************************)
\* h occurs in c as a substring
Contains(c, h) ==
    \E i \in 0..(Len(c) - Len(h)) : SubSeq(c, i + 1, i + Len(h)) = h

\* the run r has the text of the note: vault.read has returned
HasRead(r) ==
    /\ run[r].reads = 1
    /\ run[r].pc \notin {"NotStarted", "Reading"}
    /\ ~run[r].unhandled

Ended(r) == run[r].pc \in {"Done", "Aborted"}

LastNotice(r) == run[r].notices[Len(run[r].notices)]

OrchestratorPath ==
    <<"Idle", "DetectingReference", "ExtractingId", "Fetching", "Formatting",
      "Done">>

FormatOptions ==
    [includeTimestamps |-> settings.includeTimestamps,
     sectionHeading    |-> settings.sectionHeading]

\* C1, the state part: a run reads the note once and calls vault.modify at
\* most once, and it calls vault.modify only when it has passed every stage
\* up to Formatting, has had all three requests answered and holds a
\* non-empty transcript; a run that ended Aborted has not replaced the note.
C1_WriteIsLast ==
    \A r \in Runs :
        /\ run[r].reads <= 1
        /\ run[r].modifies <= 1
        /\ (run[r].pc \notin {"NotStarted"}
                /\ run[r].notices # <<"No active Markdown file">>
              => run[r].reads = 1)
        /\ (run[r].modifies = 1 =>
              /\ SubSeq(run[r].trail, 1, 5) = SubSeq(OrchestratorPath, 1, 5)
              /\ Len(run[r].requests) = 3
              /\ run[r].inflight = 0
              /\ run[r].apiKey # <<>>
              /\ run[r].track # NoTrack
              /\ Len(run[r].transcript) >= 1
              /\ ~Contains(run[r].content, settings.sectionHeading))
        /\ (run[r].wrote => run[r].pc = "Done" /\ run[r].modifies = 1)
        /\ (run[r].pc = "Aborted" => ~run[r].wrote)

\* C1, the step part: the note changes only in the step in which a run that
\* waits for vault.modify becomes Done; a step in which a run becomes Aborted
\* leaves the note as it was.
C1_OnlyDoneChangesNote ==
    /\ (note' # note =>
          \E r \in Runs : /\ run[r].pc = "Writing"
                          /\ run'[r].pc = "Done"
                          /\ note' = run[r].data)
    /\ \A r \in Runs :
          (run[r].pc # "Aborted" /\ run'[r].pc = "Aborted") => note' = note

\* C1: the note is read once and written at most once per run, the write
\* comes after every check and step succeeded, and no abort or failure path
\* changes the note.
C1_NoteWrittenOnlyOnSuccess ==
    []C1_WriteIsLast /\ [][C1_OnlyDoneChangesNote]_vars

\* C1 witness: one run has written the note and another one failed at its
\* vault.modify, after all three requests.
C1_Witness ==
    \E r, q \in Runs :
        /\ run[r].pc = "Done" /\ run[r].wrote /\ note = run[r].data
        /\ run[q].pc = "Aborted" /\ run[q].modifies = 1

\* C2: a run whose text contains the section heading ends with the single
\* notice "This note already has a transcript section", has made no request
\* and no vault.modify call.
C2_HeadingPresentAborts ==
    \A r \in Runs :
        (HasRead(r) /\ Contains(run[r].content, settings.sectionHeading)) =>
            /\ run[r].pc = "Aborted"
            /\ run[r].notices = <<"This note already has a transcript section">>
            /\ run[r].requests = <<>>
            /\ run[r].inflight = 0
            /\ run[r].modifies = 0
            /\ ~run[r].wrote

\* C2 witness: the run read a note that holds a video URL before the
\* heading, and aborted.
C2_Witness ==
    \E r \in Runs :
        /\ HasRead(r)
        /\ settings.sectionHeading # <<>>
        /\ Contains(run[r].content, settings.sectionHeading)
        /\ Contains(run[r].content, WATCH_URL \o VideoIdA)
        /\ run[r].pc = "Aborted"

\* C3, the state part: the text a run hands to vault.modify is the text it
\* read, one newline, and formatTranscript of its entries; a run that is Done
\* has shown `Transcript added (n entries)` last, n the number of entries.
C3_DataIsAppend ==
    \A r \in Runs :
        /\ (run[r].modifies = 1 =>
              LET fragment == formatTranscript(run[r].transcript, FormatOptions)
              IN  /\ run[r].data = run[r].content \o <<"\n">> \o fragment
                  /\ SubSeq(run[r].data, 1, Len(run[r].content)) = run[r].content
                  /\ SubSeq(run[r].data, Len(run[r].data) - Len(fragment) + 1,
                            Len(run[r].data)) = fragment)
        /\ (run[r].pc = "Done" =>
              LastNotice(r) = "Transcript added (" \o
                              ToString(Len(run[r].transcript)) \o " entries)")

\* C3, the step part: the step that ends a run as Done sets the note to that
\* text.
C3_WriteStep ==
    \A r \in Runs :
        (run[r].pc = "Writing" /\ run'[r].pc = "Done") =>
            note' = run[r].content \o <<"\n">>
                      \o formatTranscript(run[r].transcript, FormatOptions)

\* C3: a successful run writes the text it read, a newline and the formatted
\* transcript, and reports the number of entries.
C3_WritesReadTextPlusFragment ==
    []C3_DataIsAppend /\ [][C3_WriteStep]_vars

\* C3 witness: a run is Done, the note is what it wrote and ends with the
\* second entry's text.
C3_Witness ==
    \E r \in Runs :
        /\ run[r].pc = "Done"
        /\ note = run[r].data
        /\ Len(run[r].transcript) = 2
        /\ SubSeq(note, Len(note) - 1, Len(note)) = <<"o", "k">>

\* C4, the state part: the requests of a run are a prefix of <<GET of the
\* video page, POST to the player API, GET of the caption URL>>, no more
\* than one of them is unanswered, and one is unanswered exactly while the
\* run waits for it.
C4_RequestsArePrefix ==
    \A r \in Runs :
        LET q == run[r].requests
        IN  /\ Len(q) <= 3
            /\ run[r].inflight \in {0, 1}
            /\ (Len(q) >= 1 =>
                  q[1] = [method |-> "GET", url |-> WATCH_URL \o run[r].videoId])
            /\ (Len(q) >= 2 =>
                  q[2] = [method |-> "POST", url |-> PLAYER_URL \o run[r].apiKey])
            /\ (Len(q) >= 3 =>
                  /\ q[3].method = "GET"
                  /\ q[3].url # <<>>
                  /\ q[3].url \notin {q[1].url, q[2].url}
                  /\ TranscriptUrl(run[r].track).ok
                  /\ q[3].url = TranscriptUrl(run[r].track).url)
            /\ (run[r].pc = "AwaitPage" => Len(q) = 1)
            /\ (run[r].pc = "AwaitPlayer" => Len(q) = 2)
            /\ (run[r].pc = "AwaitXml" => Len(q) = 3)
            /\ (run[r].inflight = 1
                  <=> run[r].pc \in {"AwaitPage", "AwaitPlayer", "AwaitXml"})

\* C4, the step part: a step adds at most one request, at the end; it adds
\* one only while the run has not ended, only when the request before it has
\* just been answered and the answer was accepted (nothing was thrown).
C4_OneRequestAtATime ==
    \A r \in Runs :
        LET q == run[r].requests
        IN  \/ run'[r].requests = q
            \/ /\ Len(run'[r].requests) = Len(q) + 1
               /\ SubSeq(run'[r].requests, 1, Len(q)) = q
               /\ run[r].pc \notin {"Done", "Aborted"}
               /\ run[r].inflight = (IF Len(q) = 0 THEN 0 ELSE 1)
               /\ run'[r].inflight = 1
               /\ run'[r].caught = ""
               /\ run'[r].pc # "Aborted"

\* C4: the requests of one invocation are made one after the other, each
\* after the answer to the one before, never twice, and none after a failure.
C4_RequestsAreSequential ==
    []C4_RequestsArePrefix /\ [][C4_OneRequestAtATime]_vars

\* C4 witness: two runs overlap, one waits for its third request, the other
\* failed at its second and made no third.
C4_Witness ==
    \E r, q \in Runs :
        /\ run[r].pc = "AwaitXml" /\ Len(run[r].requests) = 3
        /\ run[q].pc = "Aborted" /\ Len(run[q].requests) = 2
        /\ run[q].caught # ""

SuccessNotice(r) ==
    "Transcript added (" \o ToString(Len(run[r].transcript)) \o " entries)"

\* the notices of r that report a failure or an abort
FailureNotices(r) ==
    {i \in 1..Len(run[r].notices) :
        run[r].notices[i] \notin {"Fetching transcript...", SuccessNotice(r)}}

\* C5: a run that has ended has either written the note and shown the
\* success notice and no failure notice, or has shown exactly one failure
\* notice, as its last notice; an error that was thrown is reported as
\* "Failed to fetch transcript: " and its message.
C5_EveryFailureNoticed ==
    \A r \in Runs :
        Ended(r) =>
            \/ /\ run[r].pc = "Done"
               /\ run[r].wrote
               /\ LastNotice(r) = SuccessNotice(r)
               /\ FailureNotices(r) = {}
            \/ /\ run[r].pc = "Aborted"
               /\ ~run[r].wrote
               /\ FailureNotices(r) = {Len(run[r].notices)}
               /\ (run[r].caught # "" =>
                     LastNotice(r) = "Failed to fetch transcript: " \o run[r].caught)

\* C5 apart from a rejected vault.read: every run that has ended in any other
\* way has shown the success notice or exactly one failure notice.
C5_NoticedUnlessReadRejects ==
    \A r \in Runs :
        (Ended(r) /\ ~run[r].unhandled) =>
            \/ /\ run[r].pc = "Done"
               /\ run[r].wrote
               /\ LastNotice(r) = SuccessNotice(r)
               /\ FailureNotices(r) = {}
            \/ /\ run[r].pc = "Aborted"
               /\ ~run[r].wrote
               /\ FailureNotices(r) = {Len(run[r].notices)}
               /\ (run[r].caught # "" =>
                     LastNotice(r) = "Failed to fetch transcript: " \o run[r].caught)

\* the guard at which a run with the text c stops under the heading h,
\* from the source order: presence check, URL detection, identifier
\* extraction
GuardOf(c, h) ==
    IF Contains(c, h) THEN "presence"
    ELSE IF findYouTubeUrls(c) = <<>> THEN "detection"
    ELSE IF extractVideoId(findYouTubeUrls(c)[1]) = <<>> THEN "extraction"
    ELSE "none"

\* GuardOf on the notes and the headings of the model
GuardTable ==
    [c \in Notes |->
        [h \in {s.sectionHeading : s \in SettingsChoices} |-> GuardOf(c, h)]]

\* the notes of the model are looked up, a note a run has written is not
FirstFailingGuard(c) ==
    IF c \in Notes THEN GuardTable[c][settings.sectionHeading]
    ELSE GuardOf(c, settings.sectionHeading)

\* C6: the trail of a run is a prefix of Idle, DetectingReference,
\* ExtractingId, Fetching, Formatting, Done, or such a prefix (short of Done)
\* followed by Aborted; a run that has the text of the note stopped at the
\* first guard that fails, with that guard's notice and without entering a
\* later stage, and entered Fetching only when no guard fails; it entered
\* Formatting only with the three requests answered and a transcript that
\* is not empty, and a run aborted in Fetching holds no transcript.
C6_GuardsInOrder ==
    \A r \in Runs :
        /\ \E k \in 0..6 :
              \/ run[r].trail = SubSeq(OrchestratorPath, 1, k)
              \/ /\ k \in 1..5
                 /\ run[r].trail = SubSeq(OrchestratorPath, 1, k) \o <<"Aborted">>
        /\ (HasRead(r) =>
              LET g == FirstFailingGuard(run[r].content)
              IN  /\ (g = "presence" =>
                        /\ run[r].trail = <<"Idle", "Aborted">>
                        /\ run[r].notices =
                             <<"This note already has a transcript section">>)
                  /\ (g = "detection" =>
                        /\ run[r].trail = <<"Idle", "DetectingReference", "Aborted">>
                        /\ run[r].notices = <<"No YouTube URL found in this note">>)
                  /\ (g = "extraction" =>
                        /\ run[r].trail = <<"Idle", "DetectingReference",
                                            "ExtractingId", "Aborted">>
                        /\ run[r].notices = <<"Could not extract video ID from URL">>)
                  /\ (g = "none" =>
                        /\ SubSeq(run[r].trail, 1, 4) = SubSeq(OrchestratorPath, 1, 4)
                        /\ run[r].notices[1] = "Fetching transcript..."
                        /\ Len(run[r].requests) >= 1)
                  /\ (Len(run[r].requests) >= 1 => g = "none"))
        /\ (InSeq(run[r].trail, "Formatting") =>
              /\ Len(run[r].requests) = 3
              /\ run[r].inflight = 0
              /\ Len(run[r].transcript) >= 1)
        /\ (run[r].trail = SubSeq(OrchestratorPath, 1, 4) \o <<"Aborted">> =>
              /\ run[r].transcript = <<>>
              /\ \/ run[r].caught # ""
                 \/ LastNotice(r) = "No transcript entries found")

\* C6 witness: a run read a note with the heading and no URL and aborted as
\* already-has-transcript.
C6_Witness ==
    \E r \in Runs :
        /\ HasRead(r)
        /\ settings.sectionHeading # <<>>
        /\ Contains(run[r].content, settings.sectionHeading)
        /\ findYouTubeUrls(run[r].content) = <<>>
        /\ run[r].trail = <<"Idle", "Aborted">>

(***************************************************************************)
(* Single calls of the functions of transcript.ts, on inputs wider than    *)
(* the ones a run of the command is given.  The variable  call  holds the  *)
(* call: its arguments, where it stands, and what it returned or threw.    *)
(***************************************************************************)
\* the state of the command while a single function is called
CommandIdle ==
    /\ note = NotePlain
    /\ settings = DEFAULT_SETTINGS
    /\ run = [r \in Runs |-> NewRun]

\* ---- selectTrack(tracks, lang) ----
TrackLanguages ==
    { <<"e", "n">>, <<"e", "n", "-", "U", "S">>, <<"e", "n", "-", "G", "B">>,
      <<"f", "r">>, <<"e">> }

PreferredLanguages ==
    { <<"e", "n">>, <<"e", "n", "-", "U", "S">>, <<"f", "r", "-", "C", "A">>,
      <<"d", "e">>, <<>>, <<"e">> }

\* the track lists of a length: every track has its own baseUrl
TrackLists(n) ==
    { [i \in 1..n |-> [baseUrl |-> <<"t", DigitChar(i)>>, url |-> <<>>,
                       languageCode |-> codes[i]]] :
        codes \in [1..n -> TrackLanguages] }

InitSelectTrack ==
    /\ CommandIdle
    /\ \E n \in 0..MaxTracks :
       \E tracks \in TrackLists(n) :
       \E lang \in PreferredLanguages :
          call = [fn |-> "selectTrack", stage |-> "called", tracks |-> tracks,
                  lang |-> lang, error |-> "", track |-> NoTrack]

SelectTrackReturns ==
    /\ call.fn = "selectTrack"
    /\ call.stage = "called"
    /\ LET got == selectTrack(call.tracks, call.lang)
       IN  call' = [call EXCEPT
                      !.stage = IF got.ok THEN "returned" ELSE "threw",
                      !.error = got.error,
                      !.track = IF got.ok THEN got.track ELSE NoTrack]
    /\ UNCHANGED <<note, settings, run>>

SpecSelectTrack == InitSelectTrack /\ [][SelectTrackReturns]_vars

\* ---- extractApiKey(videoId, lang) ----
InitExtractApiKey ==
    /\ CommandIdle
    /\ \E marker, escapedFirst \in BOOLEAN :
       \E plainKey \in {NoKey, <<>>, KeyA} :
       \E escapedKey \in {NoKey, <<>>, KeyB} :
       \E status \in {200, 404, 429} :
          call = [fn |-> "extractApiKey", stage |-> "awaiting",
                  marker |-> marker, plainKey |-> plainKey,
                  escapedKey |-> escapedKey, escapedFirst |-> escapedFirst,
                  response |-> Response(status,
                                        PageText(marker, plainKey, escapedKey,
                                                 escapedFirst),
                                        NoJson),
                  error |-> "", apiKey |-> <<>>]

ExtractApiKeyResponds ==
    /\ call.fn = "extractApiKey"
    /\ call.stage = "awaiting"
    /\ LET got == extractApiKey(call.response)
       IN  call' = [call EXCEPT
                      !.stage = IF got.ok THEN "returned" ELSE "threw",
                      !.error = got.error,
                      !.apiKey = IF got.ok THEN got.apiKey ELSE <<>>]
    /\ UNCHANGED <<note, settings, run>>

SpecExtractApiKey == InitExtractApiKey /\ [][ExtractApiKeyResponds]_vars

\* ---- fetchCaptionTracks(videoId, apiKey) ----
Tracklists ==
    { NoTracklist, Tracklist(FALSE, <<>>), Tracklist(TRUE, <<>>),
      Tracklist(TRUE, <<TrackEn>>), Tracklist(TRUE, <<TrackFr, TrackEn>>) }

PlayabilityStatuses == {"OK", "ERROR", "LOGIN_REQUIRED", ""}

\* the player responses: there is nothing under captions when captions
\* is absent
PlayerJsons ==
    { PlayerJson(captions, nested, top, playability) :
        captions \in BOOLEAN, nested \in Tracklists, top \in Tracklists,
        playability \in PlayabilityStatuses }
    \ { PlayerJson(FALSE, nested, top, playability) :
        nested \in Tracklists \ {NoTracklist}, top \in Tracklists,
        playability \in PlayabilityStatuses }

InitFetchCaptionTracks ==
    /\ CommandIdle
    /\ \E status \in {200, 204, 403, 500} :
       \E json \in PlayerJsons :
          call = [fn |-> "fetchCaptionTracks", stage |-> "awaiting",
                  response |-> Response(status, <<>>, json),
                  error |-> "", tracks |-> <<>>]

FetchCaptionTracksResponds ==
    /\ call.fn = "fetchCaptionTracks"
    /\ call.stage = "awaiting"
    /\ LET got == fetchCaptionTracks(call.response)
       IN  call' = [call EXCEPT
                      !.stage = IF got.ok THEN "returned" ELSE "threw",
                      !.error = got.error,
                      !.tracks = IF got.ok THEN got.tracks ELSE <<>>]
    /\ UNCHANGED <<note, settings, run>>

SpecFetchCaptionTracks ==
    InitFetchCaptionTracks /\ [][FetchCaptionTracksResponds]_vars

\* ---- fetchTranscriptXml(track, lang) ----
InitFetchTranscriptXml ==
    /\ CommandIdle
    /\ \E track \in
            { TrackEn, TrackFr, TrackNoUrl,
              \* a track with both URLs, a track with fmt as first parameter
              [baseUrl |-> <<"t", "?", "v", "=", "3">>,
               url |-> <<"u", "?", "v", "=", "3">>,
               languageCode |-> <<"e", "n">>],
              [baseUrl |-> <<"t", "?", "f", "m", "t", "=", "3", "&", "v", "=",
                             "4">>,
               url |-> <<>>, languageCode |-> <<"e", "n">>] } :
          call = [fn |-> "fetchTranscriptXml", stage |-> "called",
                  track |-> track, requests |-> <<>>,
                  response |-> NoResponse, error |-> "", xml |-> <<>>]

\* fetchTranscriptXml up to the await of requestUrl, or its first throw
FetchTranscriptXmlRequests ==
    /\ call.fn = "fetchTranscriptXml"
    /\ call.stage = "called"
    /\ LET target == TranscriptUrl(call.track)
       IN  call' = IF ~target.ok
                   THEN [call EXCEPT !.stage = "threw", !.error = target.error]
                   ELSE [call EXCEPT !.stage = "awaiting",
                                     !.requests = Append(@, target.url)]
    /\ UNCHANGED <<note, settings, run>>

\* fetchTranscriptXml from the answer of requestUrl on
FetchTranscriptXmlResponds ==
    /\ call.fn = "fetchTranscriptXml"
    /\ call.stage = "awaiting"
    /\ \E status \in {200, 201, 204, 301, 403, 404, 429, 500, 503} :
       \E body \in {<<>>, XmlNoEntries, XmlGood} :
          LET response == Response(status, body, NoJson)
              got == fetchTranscriptXml(response)
          IN  call' = [call EXCEPT
                         !.response = response,
                         !.stage = IF got.ok THEN "returned" ELSE "threw",
                         !.error = got.error,
                         !.xml = IF got.ok THEN got.xml ELSE <<>>]
    /\ UNCHANGED <<note, settings, run>>

SpecFetchTranscriptXml ==
    InitFetchTranscriptXml
      /\ [][FetchTranscriptXmlRequests \/ FetchTranscriptXmlResponds]_vars

\* ---- the command while the host changes the note ----
\* Between the await of vault.read and the await of vault.modify the
\* command holds no lock on the file: the host may store another text in
\* it.  One change of a note that no run has written yet is modelled.

\* the text the host adds to the note
HostText == <<"\n", "e", "d", "i", "t">>

HostModifies ==
    /\ note \in Notes
    /\ \E r \in Runs : HasRead(r) /\ ~Ended(r)
    /\ note' = note \o HostText
    /\ UNCHANGED <<settings, run, call>>

SpecHost == Init /\ [][Next \/ HostModifies]_vars

\* ---- the command when the host answers ----
\* Every vault.read, requestUrl and vault.modify that a run awaits is
\* answered at last: it resolves or it rejects.  Nothing makes the user
\* invoke the command.
SpecAnswered ==
    Spec /\ \A r \in Runs :
               WF_vars(\/ ReadFails(r)
                       \/ ReadReturns(r)
                       \/ RequestFails(r)
                       \/ PageResponse(r)
                       \/ PlayerResponse(r)
                       \/ XmlResponse(r)
                       \/ ModifyFails(r)
                       \/ ModifyReturns(r))

\* ---- the exported functions of detector, parser and formatter ----
\* "&" \o tail, the "&" written as &amp; level times over
RECURSIVE Encoded(_, _)
Encoded(tail, level) ==
    IF level = 0 THEN <<"&">> \o tail
    ELSE LET inner == Encoded(tail, level - 1)
         IN  <<"&", "a", "m", "p", ";">> \o SubSeq(inner, 2, Len(inner))

\* Each function is called on an input built from named parts; the parts
\* stay in the call next to the input.
InitUnits ==
    /\ settings = DEFAULT_SETTINGS
    /\ run = [r \in Runs |-> NewRun]
    /\ \/ \* extractVideoId(url): a shape, a token, what follows the token
          /\ note = NotePlain
          /\ \E shape \in
                  { [pattern |-> 1, foreign |-> FALSE, other |-> <<>>,
                     prefix |-> <<"h", "t", "t", "p", "s", ":", "/", "/",
                                  "w", "w", "w", ".", "y", "o", "u", "t",
                                  "u", "b", "e", ".", "c", "o", "m", "/",
                                  "w", "a", "t", "c", "h", "?", "v", "=">>],
                    [pattern |-> 2, foreign |-> FALSE, other |-> <<>>,
                     prefix |-> <<"h", "t", "t", "p", "s", ":", "/", "/",
                                  "y", "o", "u", "t", "u", ".", "b", "e",
                                  "/">>],
                    [pattern |-> 3, foreign |-> FALSE, other |-> <<>>,
                     prefix |-> <<"h", "t", "t", "p", "s", ":", "/", "/",
                                  "w", "w", "w", ".", "y", "o", "u", "t",
                                  "u", "b", "e", ".", "c", "o", "m", "/",
                                  "e", "m", "b", "e", "d", "/">>],
                    [pattern |-> 4, foreign |-> FALSE, other |-> <<>>,
                     prefix |-> <<"h", "t", "t", "p", "s", ":", "/", "/",
                                  "w", "w", "w", ".", "y", "o", "u", "t",
                                  "u", "b", "e", ".", "c", "o", "m", "/",
                                  "v", "/">>],
                    [pattern |-> 5, foreign |-> FALSE, other |-> <<>>,
                     prefix |-> <<"h", "t", "t", "p", "s", ":", "/", "/",
                                  "w", "w", "w", ".", "y", "o", "u", "t",
                                  "u", "b", "e", ".", "c", "o", "m", "/",
                                  "s", "h", "o", "r", "t", "s", "/">>],
                    [pattern |-> 1, foreign |-> FALSE,
                     other |-> <<"-", "_", "w", "4", "w", "9", "W", "g", "X",
                                 "c", "Q">>,
                     prefix |-> <<"h", "t", "t", "p", "s", ":", "/", "/",
                                  "y", "o", "u", "t", "u", ".", "b", "e",
                                  "/", "-", "_", "w", "4", "w", "9", "W",
                                  "g", "X", "c", "Q", "?", "u", "=", "y",
                                  "o", "u", "t", "u", "b", "e", ".", "c",
                                  "o", "m", "/", "w", "a", "t", "c", "h",
                                  "?", "v", "=">>],
                    [pattern |-> 0, foreign |-> FALSE, other |-> <<>>,
                     prefix |-> <<"h", "t", "t", "p", "s", ":", "/", "/",
                                  "w", "w", "w", ".", "y", "o", "u", "t",
                                  "u", "b", "e", ".", "c", "o", "m", "/",
                                  "p", "l", "a", "y", "l", "i", "s", "t",
                                  "?", "l", "i", "s", "t", "=">>],
                    [pattern |-> 0, foreign |-> TRUE, other |-> <<>>,
                     prefix |-> <<"h", "t", "t", "p", "s", ":", "/", "/",
                                  "e", "x", "a", "m", "p", "l", "e", ".",
                                  "c", "o", "m", "/", "w", "a", "t", "c",
                                  "h", "?", "v", "=">>],
                    [pattern |-> 1, foreign |-> TRUE, other |-> <<>>,
                     prefix |-> <<"h", "t", "t", "p", "s", ":", "/", "/",
                                  "n", "o", "t", "y", "o", "u", "t", "u",
                                  "b", "e", ".", "c", "o", "m", "/", "w",
                                  "a", "t", "c", "h", "?", "v", "=">>] } :
             \E token \in
                  { VideoIdA, <<"-", "_", "w", "4", "w", "9", "W", "g", "X",
                                "c", "Q">>, <<"d", "Q", "w", "4", "w", "9",
                                              "W", "g", "X", "c">>,
                    <<"d", "Q", "w", "4", "w", "9", "W", "g", "X", "c", "Q",
                      "Z">>, <<"d", "Q", "w", "4", "w", "9", "W", ".", "X",
                               "c", "Q">>, <<>> } :
             \E suffix \in { <<>>, <<"&", "t", "=", "4", "2", "s">>, <<"?",
                                                                       "s",
                                                                       "i",
                                                                       "=",
                                                                       "a",
                                                                       "b",
                                                                       "c">>,
                                                                                <<"/">> } :
                call = [fn |-> "extractVideoId", stage |-> "called",
                        shape |-> shape, token |-> token, suffix |-> suffix,
                        url |-> shape.prefix \o token \o suffix,
                        videoId |-> <<>>]
       \/ \* parseTranscriptXml(xml, lang): a sequence of elements
          /\ note = NotePlain
          /\ \E n \in 0..MaxElements :
             \E kinds \in
                  [1..n -> { [start |-> start, dur |-> dur, closed |-> TRUE] :
                               start \in {<<>>, <<"0">>, <<"1", ".", "5">>},
                               dur \in {<<>>, <<"2">>} }
                           \cup {[start |-> <<"1", ".", "5">>, dur |-> <<"2">>,
                                  closed |-> FALSE]}] :
             \E lang \in {<<"e", "n">>, <<"f", "r">>} :
                LET elements ==
                      [i \in 1..n |->
                         [start |-> kinds[i].start, dur |-> kinds[i].dur,
                          closed |-> kinds[i].closed,
                          text |-> <<"t", DigitChar(i)>>]]
                    texts ==
                      [i \in 1..n |->
                         LET whole == XmlText(elements[i].start,
                                              elements[i].dur,
                                              elements[i].text)
                         IN  IF elements[i].closed THEN whole
                             ELSE SubSeq(whole, 1,
                                         Len(whole) - Len(TEXT_CLOSE))]
                IN  call = [fn |-> "parseTranscriptXml", stage |-> "called",
                            about |-> "elements", elements |-> elements,
                            xml |-> <<"<", "t", "r", "a", "n", "s", "c", "r",
                                      "i", "p", "t", ">">> \o JoinWith(texts, <<>>)
                                      \o <<"<", "/", "t", "r", "a", "n", "s",
                                           "c", "r", "i", "p", "t", ">">>,
                            lang |-> lang, entries |-> <<>>, error |-> ""]
       \/ \* parseTranscriptXml(xml, lang): one element, its text a
          \* character reference written at some level between two texts
          /\ note = NotePlain
          /\ \E ref \in
                  { [kind |-> "decimal", tail |-> <<"#", "3", "9", ";">>, char |-> "'"],
                    [kind |-> "decimal", tail |-> <<"#", "6", "5", ";">>, char |-> "A"],
                    [kind |-> "hex", tail |-> <<"#", "x", "2", "7", ";">>, char |-> "'"],
                    [kind |-> "hex", tail |-> <<"#", "x", "3", "C", ";">>, char |-> "<"],
                    [kind |-> "named", tail |-> <<"a", "m", "p", ";">>, char |-> "&"],
                    [kind |-> "named", tail |-> <<"l", "t", ";">>, char |-> "<"],
                    [kind |-> "named", tail |-> <<"g", "t", ";">>, char |-> ">"],
                    [kind |-> "named", tail |-> <<"q", "u", "o", "t", ";">>, char |-> "\""],
                    [kind |-> "named", tail |-> <<"a", "p", "o", "s", ";">>, char |-> "'"],
                    [kind |-> "named", tail |-> <<"n", "b", "s", "p", ";">>, char |-> " "],
                    [kind |-> "unknown", tail |-> <<"h", "e", "l", "l", "i",
                                                    "p", ";">>, char |-> ""],
                    [kind |-> "unknown", tail |-> <<"c", "o", "n", "s", "t",
                                                    "r", "u", "c", "t", "o",
                                                    "r", ";">>,
                     char |-> ""],
                    [kind |-> "none", tail |-> <<>>, char |-> ""] } :
             \E level \in 0..MaxLevels :
             \E pre \in {<<>>, <<"i", "t">>}, post \in {<<>>, <<"s", ";",
                                                                " ", "a">>} :
                /\ (ref.kind = "none" => level = 0)
                /\ LET text == pre \o (IF ref.kind = "none" THEN <<>>
                                       ELSE Encoded(ref.tail, level)) \o post
                   IN  call = [fn |-> "parseTranscriptXml",
                               stage |-> "called", about |-> "references",
                               pre |-> pre, ref |-> ref, level |-> level,
                               post |-> post, text |-> text,
                               xml |-> XmlText(<<"1">>, <<"2">>, text),
                               lang |-> <<"e", "n">>, entries |-> <<>>,
                               error |-> ""]
       \/ \* formatTranscript(entries, options): entries at given clock
          \* times, one entry at every time or a few entries at a few times
          /\ note = NotePlain
          /\ \E n \in 1..MaxEntries :
             \E parts \in
                  [1..n -> { [h |-> h, m |-> m, s |-> s, f |-> f,
                              text |-> <<"a">>] :
                               h \in {0, 1, 10, 100}, m \in {0, 1, 9, 10, 59},
                               s \in {0, 5, 45, 59}, f \in {0, 999} }
                           \cup
                           { [h |-> 0, m |-> 2, s |-> 5, f |-> 0,
                              text |-> <<"b", " ", "c">>],
                             [h |-> 1, m |-> 1, s |-> 5, f |-> 0,
                              text |-> <<>>] }] :
             \E options \in
                  [includeTimestamps : BOOLEAN,
                   sectionHeading : {HEADING, <<"#">>, <<>>}] :
                /\ \/ n = 1 /\ options.sectionHeading = HEADING
                   \/ \A i \in 1..n :
                         parts[i].h * 3600 + parts[i].m * 60 + parts[i].s
                            \in {0, 125, 3665}
                /\ call = [fn |-> "formatTranscript", stage |-> "called",
                           parts |-> parts,
                           entries |->
                             [i \in 1..n |->
                                [offset |-> ((parts[i].h * 60 + parts[i].m)
                                                * 60 + parts[i].s) * 1000
                                              + parts[i].f,
                                 duration |-> 1000, text |-> parts[i].text,
                                 lang |-> <<"e", "n">>]],
                           options |-> options, fragment |-> <<>>]
       \/ \* findYouTubeUrls(content), and the command on the same note: a
          \* front matter and pieces, each with the URL that the markdown
          \* and the bare-URL strategy find in it
          /\ \E front \in
                  { [text |-> <<>>, source |-> <<>>, bare |-> <<>>],
                    [text |-> <<"-", "-", "-", "\n", "s", "o", "u", "r", "c",
                                "e", ":", " ">> \o WATCH_URL \o VideoIdA
                                \o <<"\n", "-", "-", "-", "\n">>,
                     source |-> WATCH_URL \o VideoIdA,
                     bare |-> WATCH_URL \o VideoIdA],
                    [text |-> <<"-", "-", "-", "\n", "s", "o", "u", "r", "c",
                                "e", ":", " ", "h", "t", "t", "p", "s", ":",
                                "/", "/", "w", "w", "w", ".", "y", "o", "u",
                                "t", "u", "b", "e", ".", "c", "o", "m", "/",
                                "c", "\n", "-", "-", "-", "\n">>,
                     source |-> <<"h", "t", "t", "p", "s", ":", "/", "/",
                                  "w", "w", "w", ".", "y", "o", "u", "t",
                                  "u", "b", "e", ".", "c", "o", "m", "/",
                                  "c">>,
                     bare |-> <<>>] } :
             \E n \in 0..MaxPieces :
             \E pieces \in
                  [1..n ->
                     { [text |-> WATCH_URL \o VideoIdA, md |-> <<>>,
                        bare |-> WATCH_URL \o VideoIdA],
                       [text |-> WATCH_URL \o VideoIdA \o <<".">>,
                        md |-> <<>>, bare |-> WATCH_URL \o VideoIdA],
                       [text |-> <<"h", "t", "t", "p", "s", ":", "/", "/",
                                   "y", "o", "u", "t", "u", ".", "b", "e",
                                   "/", "-", "_", "w", "4", "w", "9", "W",
                                   "g", "X", "c", "Q">>,
                        md |-> <<>>,
                        bare |-> <<"h", "t", "t", "p", "s", ":", "/", "/",
                                   "y", "o", "u", "t", "u", ".", "b", "e",
                                   "/", "-", "_", "w", "4", "w", "9", "W",
                                   "g", "X", "c", "Q">>],
                       [text |-> <<"[", "v", "]", "(">> \o WATCH_URL \o VideoIdA \o <<")">>,
                        md |-> WATCH_URL \o VideoIdA,
                        bare |-> WATCH_URL \o VideoIdA],
                       [text |-> <<"[", "v", "]", "(", "h", "t", "t", "p",
                                   "s", ":", "/", "/", "y", "o", "u", "t",
                                   "u", ".", "b", "e", "/", "s", "h", "o",
                                   "r", "t", ")">>,
                        md |-> <<"h", "t", "t", "p", "s", ":", "/", "/", "y",
                                 "o", "u", "t", "u", ".", "b", "e", "/", "s",
                                 "h", "o", "r", "t">>, bare |-> <<>>],
                       [text |-> <<"n", "o", "t", "e", "s">>, md |-> <<>>, bare |-> <<>>] }] :
                LET content ==
                      front.text
                        \o JoinWith([i \in 1..n |-> pieces[i].text], <<" ">>)
                IN  /\ note = content
                    /\ call = [fn |-> "findYouTubeUrls", stage |-> "called",
                               front |-> front, pieces |-> pieces,
                               content |-> content, urls |-> <<>>]

ExtractVideoIdReturns ==
    /\ call.fn = "extractVideoId"
    /\ call.stage = "called"
    /\ call' = [call EXCEPT !.stage = "returned",
                            !.videoId = extractVideoId(call.url)]
    /\ UNCHANGED <<note, settings, run>>

ParseTranscriptXmlReturns ==
    /\ call.fn = "parseTranscriptXml"
    /\ call.stage = "called"
    /\ LET got == parseTranscriptXml(call.xml, call.lang)
       IN  call' = [call EXCEPT !.stage = IF got.ok THEN "returned"
                                          ELSE "threw",
                                !.entries = got.entries,
                                !.error = got.error]
    /\ UNCHANGED <<note, settings, run>>

FormatTranscriptReturns ==
    /\ call.fn = "formatTranscript"
    /\ call.stage = "called"
    /\ call' = [call EXCEPT !.stage = "returned",
                            !.fragment = formatTranscript(call.entries,
                                                          call.options)]
    /\ UNCHANGED <<note, settings, run>>

FindYouTubeUrlsReturns ==
    /\ call.fn = "findYouTubeUrls"
    /\ call.stage = "called"
    /\ call' = [call EXCEPT !.stage = "returned",
                            !.urls = findYouTubeUrls(call.content)]
    /\ UNCHANGED <<note, settings, run>>

SpecUnits ==
    InitUnits
      /\ [][\/ ExtractVideoIdReturns
            \/ ParseTranscriptXmlReturns
            \/ FormatTranscriptReturns
            \/ FindYouTubeUrlsReturns
            \/ (call.fn = "findYouTubeUrls" /\ Invoke(1))
            \/ (call.fn = "findYouTubeUrls" /\ ReadReturns(1))
            \/ (call.fn = "findYouTubeUrls" /\ ReadFails(1))]_vars

(***************************************************************************)
(* Properties of the functions of transcript.ts.                           *)
(***************************************************************************)
\* the text of lang before its first "-", all of lang when it has none
BasePart(lang) ==
    LET k == CHOOSE k \in 0..Len(lang) :
                /\ \A i \in 1..k : lang[i] # "-"
                /\ (k = Len(lang) \/ lang[k + 1] = "-")
    IN  SubSeq(lang, 1, k)

\* code begins with the text b
BeginsWith(code, b) ==
    Len(code) >= Len(b) /\ SubSeq(code, 1, Len(b)) = b

ExactMatches ==
    {i \in 1..Len(call.tracks) : call.tracks[i].languageCode = call.lang}

BaseMatches ==
    {i \in 1..Len(call.tracks) :
        BeginsWith(call.tracks[i].languageCode, BasePart(call.lang))}

\* C7: on a non-empty track list selectTrack does not throw, and it returns
\* the first track whose language code equals the preferred language; when
\* there is none, the first track whose language code begins with the base
\* part of the preferred language; when there is none, the first track.
C7_SelectTrackByPreference ==
    (call.fn = "selectTrack" /\ call.stage # "called" /\ Len(call.tracks) >= 1) =>
        /\ call.stage = "returned"
        /\ call.track =
             call.tracks[IF ExactMatches # {} THEN SetMin(ExactMatches)
                         ELSE IF BaseMatches # {} THEN SetMin(BaseMatches)
                         ELSE 1]

\* C7 witness: no track has the preferred language, two later tracks match
\* its base part, and the earlier of the two was returned, not the first
\* track of the list.
C7_Witness ==
    /\ call.fn = "selectTrack"
    /\ call.stage = "returned"
    /\ ExactMatches = {}
    /\ Cardinality(BaseMatches) >= 2
    /\ 1 \notin BaseMatches
    /\ call.track = call.tracks[SetMin(BaseMatches)]
    /\ call.track # call.tracks[1]

\* the caption-track listing of a player response: the one under captions,
\* else the one at the top level; none when there is no captions object
HasListing(json) ==
    /\ json.captions.present
    /\ \/ json.captions.playerCaptionsTracklistRenderer.present
       \/ json.playerCaptionsTracklistRenderer.present

Listing(json) ==
    IF json.captions.playerCaptionsTracklistRenderer.present
    THEN json.captions.playerCaptionsTracklistRenderer
    ELSE json.playerCaptionsTracklistRenderer

TrackListingErrors ==
    { "Failed to fetch video information from YouTube.",
      "Transcripts are disabled for this video.",
      "No transcripts available for this video.",
      "No caption tracks found for this video." }

RealKey(key) == key \notin {NoKey, <<>>}

\* C9: a page with the bot-challenge marker throws RateLimited whatever keys
\* it holds; a page without it returns the key in the plain encoding when it
\* has one, else the key in the escaped encoding when it has one, wherever
\* the two stand in the page; it throws ApiKeyNotFound when it has neither;
\* the key returned is never empty.
C9_ApiKeyOutcome ==
    (call.fn = "extractApiKey" /\ call.stage # "awaiting") =>
        LET threw(message) == call.stage = "threw" /\ call.error = message
            returned(key)  == call.stage = "returned" /\ call.apiKey = key
        IN  /\ IF call.marker
               THEN threw("YouTube is receiving too many requests. Try again later.")
               ELSE IF RealKey(call.plainKey) THEN returned(call.plainKey)
               ELSE IF RealKey(call.escapedKey) THEN returned(call.escapedKey)
               ELSE threw("Could not find YouTube API key. Video may not be available.")
            /\ (call.stage = "returned" => call.apiKey # <<>>)

\* C9 witness: a page that has the marker and a key in both encodings was
\* answered with RateLimited.
C9_Witness ==
    /\ call.fn = "extractApiKey"
    /\ call.stage = "threw"
    /\ call.marker
    /\ RealKey(call.plainKey)
    /\ RealKey(call.escapedKey)
    /\ call.error = "YouTube is receiving too many requests. Try again later."

\* C10: a track with no URL throws before any request; with a URL one
\* request is sent, and its answer decides: status 429 throws RateLimited,
\* any other status than 200 throws FetchFailed, status 200 with an empty
\* body throws FetchFailed, and status 200 with a body returns that body.
C10_TranscriptFetchOutcome ==
    (call.fn = "fetchTranscriptXml") =>
        LET threw(message) == call.stage = "threw" /\ call.error = message
            status == call.response.status
            body   == call.response.text
        IN  /\ ((call.track.baseUrl = <<>> /\ call.track.url = <<>>) =>
                  /\ call.requests = <<>>
                  /\ call.stage \in {"called", "threw"}
                  /\ (call.stage = "threw" =>
                        call.error = "No transcript URL found in caption track."))
            /\ ((call.track.baseUrl # <<>> \/ call.track.url # <<>>) =>
                  Len(call.requests) = (IF call.stage = "called" THEN 0 ELSE 1))
            /\ ((call.stage \in {"returned", "threw"} /\ call.requests # <<>>) =>
                  IF status = 429
                  THEN threw("Too many requests. Please try again later.")
                  ELSE IF status # 200 \/ body = <<>>
                  THEN threw("Failed to fetch transcript from YouTube.")
                  ELSE call.stage = "returned" /\ call.xml = body)
            /\ (call.stage = "returned" =>
                  /\ status \in 200..299
                  /\ body # <<>>
                  /\ call.xml = body)

\* C10 witness: status 200 with an empty body was answered with FetchFailed.
C10_Witness ==
    /\ call.fn = "fetchTranscriptXml"
    /\ call.stage = "threw"
    /\ Len(call.requests) = 1
    /\ call.response.status = 200
    /\ call.response.text = <<>>
    /\ call.error = "Failed to fetch transcript from YouTube."

(***************************************************************************)
(* Properties of the functions of parser, detector and formatter.          *)
(***************************************************************************)
\* C11: parseTranscriptXml never returns an empty sequence.  XML in which no
\* <text start dur> element matches makes it throw NoEntriesFound, it throws
\* nothing else, and whenever it returns it returns one entry at least.
C11_NeverReturnsEmpty ==
    (call.fn = "parseTranscriptXml" /\ call.stage # "called") =>
        /\ call.stage \in {"returned", "threw"}
        /\ (call.stage = "returned" =>
              Len(call.entries) >= 1 /\ call.error = "")
        /\ (call.stage = "threw" =>
              call.error = "No transcript entries found in response.")
        /\ ((call.about = "elements"
               /\ \A i \in 1..Len(call.elements) : ~call.elements[i].closed)
              => call.stage = "threw")

\* C11 witness: XML with elements, none of them a complete <text start dur>
\* element, was answered with NoEntriesFound.
C11_Witness ==
    /\ call.fn = "parseTranscriptXml"
    /\ call.about = "elements"
    /\ Len(call.elements) >= 1
    /\ \A i \in 1..Len(call.elements) : ~call.elements[i].closed
    /\ call.stage = "threw"
    /\ call.error = "No transcript entries found in response."

\* C12: the sequence returned by findYouTubeUrls holds no string twice,
\* whichever strategies find a URL and whatever punctuation follows it.
C12_NoDuplicateUrls ==
    (call.fn = "findYouTubeUrls" /\ call.stage = "returned") =>
        \A i, j \in 1..Len(call.urls) :
            call.urls[i] = call.urls[j] => i = j

\* C13: extractVideoId returns the token of a URL of a supported shape that
\* carries a token of exactly 11 characters of [A-Za-z0-9_-], the first
\* pattern of the list winning when two shapes stand in the URL; it returns
\* null for a URL without such a token (a token of 10 or 12 characters, a
\* token with another character, no token, an unsupported path) and for a
\* URL of a foreign domain.
C13_ExtractVideoIdOutcome ==
    (call.fn = "extractVideoId" /\ call.stage = "returned") =>
        LET valid == call.token \in {VideoIdA, <<"-", "_", "w", "4", "w",
                                                 "9", "W", "g", "X", "c",
                                                 "Q">>}
        IN  call.videoId =
              IF call.shape.foreign THEN <<>>
              ELSE IF call.shape.pattern > 0 /\ valid THEN call.token
              ELSE call.shape.other

\* what two decode passes make of a reference written at a level: the
\* character of a decimal, hexadecimal or table-named reference written
\* plainly or wrapped once, an unknown named reference itself, and the
\* reference two levels lower when it is wrapped twice or more
TwicePassed(ref, level) ==
    IF ref.kind = "none" THEN <<>>
    ELSE IF level >= 2 THEN Encoded(ref.tail, level - 2)
    ELSE IF ref.kind = "unknown" THEN <<"&">> \o ref.tail
    ELSE <<ref.char>>

\* C14: decodeXmlEntities makes exactly two decode passes.  A decimal,
\* hexadecimal or table-named reference becomes its character when it is
\* written plainly or double-encoded (&amp;#39;), a triple-encoded one stays
\* one level encoded, an unknown named reference stays as it is written, and
\* the text around the reference is unchanged.
C14_TwoDecodePasses ==
    (call.fn = "parseTranscriptXml" /\ call.about = "references"
       /\ call.stage # "called") =>
        /\ call.stage = "returned"
        /\ Len(call.entries) = 1
        /\ call.entries[1].text =
             call.pre \o TwicePassed(call.ref, call.level) \o call.post

\* text holds a decimal reference, a hexadecimal reference, or a reference
\* with one of the six names of the table
HasKnownReference(text) ==
    \E i \in 1..Len(text) : \E j \in (i + 2)..Len(text) :
        /\ text[i] = "&"
        /\ text[j] = ";"
        /\ LET body == SubSeq(text, i + 1, j - 1)
               allIn(from, chars) ==
                   /\ from <= Len(body)
                   /\ \A k \in from..Len(body) : body[k] \in chars
           IN  \/ body \in { <<"a", "m", "p">>, <<"l", "t">>, <<"g", "t">>,
                                                                              <<"q",
                                                                              "u",
                                                                              "o",
                                                                              "t">>,
                                                                                       <<"a",
                                                                                       "p",
                                                                                       "o",
                                                                                       "s">>,
                             <<"n", "b", "s", "p">> }
               \/ body[1] = "#" /\ allIn(2, Digits)
               \/ /\ body[1] = "#"
                  /\ Len(body) >= 2
                  /\ body[2] = "x"
                  /\ allIn(3, Digits \cup {"a", "b", "c", "d", "e", "f",
                                           "A", "B", "C", "D", "E", "F"})

\* C15 as stated: no entry returned by parseTranscriptXml has a text with a
\* remaining decimal, hexadecimal or known named reference.
C15_NoReferenceLeft ==
    (call.fn = "parseTranscriptXml" /\ call.stage = "returned") =>
        \A i \in 1..Len(call.entries) :
            ~HasKnownReference(call.entries[i].text)

\* C15 amended: when no reference of an element's text is encoded more than
\* two levels deep (each is written plainly or wrapped once in &amp;), the
\* text of the entry has no remaining decimal, hexadecimal or known named
\* reference.
C15_NoReferenceLeftUpToTwoLevels ==
    (call.fn = "parseTranscriptXml" /\ call.stage = "returned"
       /\ (call.about = "references" => call.level <= 1)) =>
        \A i \in 1..Len(call.entries) :
            ~HasKnownReference(call.entries[i].text)

\* C15 witness: a double-encoded decimal reference between two texts came
\* out as its character, with no reference left.
C15_Witness ==
    /\ call.fn = "parseTranscriptXml"
    /\ call.about = "references"
    /\ call.stage = "returned"
    /\ call.ref.kind = "decimal"
    /\ call.level = 1
    /\ call.pre # <<>>
    /\ call.post # <<>>
    /\ HasKnownReference(call.text)
    /\ call.entries[1].text = call.pre \o <<call.ref.char>> \o call.post
    /\ ~HasKnownReference(call.entries[1].text)

\* the two-digit text of n in 0..99, and the text of n in 0..999
TwoDigits(n) == <<DigitChar(n \div 10), DigitChar(n % 10)>>

Decimal(n) ==
    IF n < 10 THEN <<DigitChar(n)>>
    ELSE IF n < 100 THEN TwoDigits(n)
    ELSE <<DigitChar(n \div 100)>> \o TwoDigits(n % 100)

\* the clock text of h hours, m minutes, s seconds (m, s below 60)
ClockText(part) ==
    IF part.h > 0
    THEN Decimal(part.h) \o <<":">> \o TwoDigits(part.m) \o <<":">>
            \o TwoDigits(part.s)
    ELSE Decimal(part.m) \o <<":">> \o TwoDigits(part.s)

RECURSIVE Chained(_, _, _)
\* lines[1], sep, lines[2], ..., sep, lines[k], built from the left
Chained(lines, sep, k) ==
    IF k = 0 THEN <<>>
    ELSE IF k = 1 THEN lines[1]
    ELSE Chained(lines, sep, k - 1) \o sep \o lines[k]

\* C16: for a non-empty entry sequence formatTranscript returns a newline,
\* the heading, two newlines, and then, with includeTimestamps, the lines
\* "[timestamp] text" of the entries in order joined by newlines, else the
\* texts of the entries in order joined by single spaces.  The entries are
\* as they were given, and hasTranscriptSection is true of a text that ends
\* with the fragment.
C16_FragmentShape ==
    (call.fn = "formatTranscript" /\ call.stage = "returned") =>
        LET n == Len(call.parts)
            heading == call.options.sectionHeading
            lines == [i \in 1..n |->
                        <<"[">> \o ClockText(call.parts[i]) \o <<"]", " ">>
                           \o call.parts[i].text]
            texts == [i \in 1..n |-> call.parts[i].text]
        IN  /\ call.fragment =
                 <<"\n">> \o heading \o <<"\n", "\n">>
                    \o (IF call.options.includeTimestamps
                        THEN Chained(lines, <<"\n">>, n)
                        ELSE Chained(texts, <<" ">>, n))
            /\ Len(call.entries) = n
            /\ \A i \in 1..n : call.entries[i].text = call.parts[i].text
            /\ \A before \in {<<>>, NotePlain, NoteBare} :
                  hasTranscriptSection(before \o call.fragment, heading)

\* C16 witness: two entries with different texts were formatted without
\* timestamps into one paragraph, the texts in entry order with one space
\* between them.
C16_Witness ==
    /\ call.fn = "formatTranscript"
    /\ call.stage = "returned"
    /\ ~call.options.includeTimestamps
    /\ call.options.sectionHeading = HEADING
    /\ Len(call.entries) = 2
    /\ call.entries[1].text = <<"a">>
    /\ call.entries[2].text = <<"b", " ", "c">>
    /\ call.fragment = <<"\n">> \o HEADING \o <<"\n", "\n", "a", " ", "b",
                                                " ", "c">>

\* the timestamp of entry i in a fragment with timestamps and one line per
\* entry: the text between the "[" that starts line i and the next "]"
StampOf(fragment, heading, i) ==
    LET starts == {Len(heading) + 4}
                    \cup {k + 1 : k \in {k \in (Len(heading) + 4)..Len(fragment) :
                                           fragment[k] = "\n"}}
        from == CHOOSE k \in starts :
                   Cardinality({j \in starts : j < k}) = i - 1
        to == SetMin({k \in from..Len(fragment) : fragment[k] = "]"})
    IN  SubSeq(fragment, from + 1, to - 1)

Candidates ==
    LET n == Len(call.pieces)
        all == <<call.front.source>>
                 \o [i \in 1..n |-> call.pieces[i].md]
                 \o <<call.front.bare>>
                 \o [i \in 1..n |-> call.pieces[i].bare]
    IN  SelectSeq(all, LAMBDA url : url # <<>>)

\* the place of the first url in urls
FirstAt(urls, url) == SetMin({i \in 1..Len(urls) : urls[i] = url})

\* the identifier of a URL of the generated notes
IdOfCandidate(url) ==
    IF url = WATCH_URL \o VideoIdA THEN VideoIdA
    ELSE IF url = <<"h", "t", "t", "p", "s", ":", "/", "/", "y", "o", "u",
                    "t", "u", ".", "b", "e", "/", "-", "_", "w", "4", "w",
                    "9", "W", "g", "X", "c", "Q">> THEN <<"-", "_", "w", "4",
                                                          "w", "9", "W", "g",
                                                          "X", "c", "Q">>
    ELSE <<>>

\* C18: findYouTubeUrls returns the URLs of all three strategies in
\* discovery order: the front-matter source URL, then the markdown link
\* URLs in text order, then the bare URLs in text order.  The command works
\* on the first URL only: when it holds no identifier the run aborts with
\* "Could not extract video ID from URL" and sends no request, whatever
\* URLs follow; when it holds one, that identifier is the one requested.
C18_DiscoveryOrderFirstOnly ==
    (call.fn = "findYouTubeUrls") =>
        LET found == {Candidates[i] : i \in 1..Len(Candidates)}
            last == LastNotice(1)
        IN  /\ (call.stage = "returned" =>
                  /\ {call.urls[i] : i \in 1..Len(call.urls)} = found
                  /\ \A u, v \in found :
                        (FirstAt(call.urls, u) < FirstAt(call.urls, v))
                           = (FirstAt(Candidates, u) < FirstAt(Candidates, v)))
            /\ (HasRead(1) =>
                  IF Candidates = <<>>
                  THEN /\ run[1].pc = "Aborted"
                       /\ last = "No YouTube URL found in this note"
                       /\ run[1].requests = <<>>
                  ELSE IF IdOfCandidate(Candidates[1]) = <<>>
                  THEN /\ run[1].pc = "Aborted"
                       /\ last = "Could not extract video ID from URL"
                       /\ run[1].requests = <<>>
                  ELSE /\ run[1].pc = "AwaitPage"
                       /\ run[1].videoId = IdOfCandidate(Candidates[1])
                       /\ run[1].requests =
                            << [method |-> "GET",
                                url |-> WATCH_URL \o run[1].videoId] >>)

\* C18 witness: a note whose first URL is a markdown link without an
\* identifier, followed by a bare URL with one: both were returned, the link
\* first, and the run aborted on the link without a request.
C18_Witness ==
    /\ call.fn = "findYouTubeUrls"
    /\ call.stage = "returned"
    /\ call.urls = << <<"h", "t", "t", "p", "s", ":", "/", "/", "y", "o",
                        "u", "t", "u", ".", "b", "e", "/", "s", "h", "o",
                        "r", "t">>, WATCH_URL \o VideoIdA >>
    /\ call.content = <<"[", "v", "]", "(", "h", "t", "t", "p", "s", ":",
                        "/", "/", "y", "o", "u", "t", "u", ".", "b", "e",
                        "/", "s", "h", "o", "r", "t", ")", " ">> \o WATCH_URL
                         \o VideoIdA
    /\ HasRead(1)
    /\ run[1].pc = "Aborted"
    /\ LastNotice(1) = "Could not extract video ID from URL"
    /\ run[1].requests = <<>>

\* milliseconds of the seconds texts of the generated elements; an empty
\* text is no number
Millis(seconds) ==
    CASE seconds = <<"0">> -> 0
      [] seconds = <<"1">> -> 1000
      [] seconds = <<"2">> -> 2000
      [] seconds = <<"1", ".", "5">> -> 1500
      [] seconds = <<>> -> NaN

\* the entries of a sequence of elements, in their order
EntriesOf(kept) ==
    [i \in 1..Len(kept) |->
       [offset |-> Millis(kept[i].start), duration |-> Millis(kept[i].dur),
        text |-> kept[i].text, lang |-> call.lang]]

C20_NoFmtInRequest ==
    (call.fn = "fetchTranscriptXml" /\ call.requests # <<>>) =>
        ~Contains(call.requests[1], <<"f", "m", "t", "=">>)

(***************************************************************************)
(* Properties of runs of the command over time.                            *)
(***************************************************************************)
\* C21: when every read, request and write is answered, every run that was
\* invoked reaches Done or Aborted, and a run that is Done or Aborted stays
\* as it is: no step of a run leads back, and no state lets a run wait
\* forever.
C21_EveryRunEnds ==
    /\ \A r \in Runs : (run[r].pc # "NotStarted") ~> Ended(r)
    /\ [][\A r \in Runs : Ended(r) => Ended(r)']_vars

\* C21 witness: a run went through the read, the three requests and the
\* write and is Done, and another run was invoked and is Aborted.
C21_Witness ==
    \E r, q \in Runs :
        /\ run[r].pc = "Done"
        /\ run[r].reads = 1
        /\ Len(run[r].requests) = 3
        /\ run[r].modifies = 1
        /\ run[q].pc = "Aborted"
        /\ run[q].reads = 1

\* C22: fetchTranscript throws or returns one entry at least.  No run shows
\* the notice of the empty result, "No transcript entries found", and a run
\* that has called formatTranscript has given it one entry at least.
C22_EmptyResultNeverTaken ==
    \A r \in Runs :
        /\ \A i \in 1..Len(run[r].notices) :
              run[r].notices[i] # "No transcript entries found"
        /\ (InSeq(run[r].trail, "Formatting") =>
              /\ Len(run[r].transcript) >= 1
              /\ Len(run[r].requests) = 3)
        /\ (run[r].transcript = <<>> => run[r].pc \notin {"Writing", "Done"})

\* C22 witness: the three requests of a run were answered, the XML held no
\* entry, and the run ended in the catch block with the parser's error, not
\* with the notice of the empty result.
C22_Witness ==
    \E r \in Runs :
        /\ run[r].pc = "Aborted"
        /\ Len(run[r].requests) = 3
        /\ run[r].inflight = 0
        /\ run[r].caught = "No transcript entries found in response."
        /\ LastNotice(r) = "Failed to fetch transcript: "
                              \o "No transcript entries found in response."
        /\ run[r].transcript = <<>>
        /\ ~InSeq(run[r].trail, "Formatting")

\* the number of places of text where part stands
Occurrences(text, part) ==
    Cardinality({i \in 0..(Len(text) - Len(part)) :
                   SubSeq(text, i + 1, i + Len(part)) = part})

\* the run q has read the text that the run r has written
ReadsWrittenBy(q, r) ==
    /\ r # q
    /\ run[r].wrote
    /\ HasRead(q)
    /\ run[q].content = run[r].data

\* C23: with a non-empty section heading, a run on the note that a
\* successful run has written aborts with "This note already has a
\* transcript section" and calls neither requestUrl nor vault.modify.  So
\* two runs have both written only when both read the text from before any
\* write, and after the write of one run among its re-runs the note holds
\* the heading once, in the one section appended to the text that was read.
C23_RerunAborts ==
    (settings.sectionHeading # <<>>) =>
        \A r, q \in Runs :
            /\ (ReadsWrittenBy(q, r) =>
                  /\ run[q].pc = "Aborted"
                  /\ run[q].notices =
                       <<"This note already has a transcript section">>
                  /\ run[q].requests = <<>>
                  /\ run[q].modifies = 0
                  /\ ~run[q].wrote)
            /\ ((run[r].wrote /\ run[q].wrote) =>
                  run[r].content = run[q].content)
            /\ ((run[r].wrote /\ \A p \in Runs : run[p].wrote => p = r) =>
                  /\ Occurrences(note, settings.sectionHeading) = 1
                  /\ note = run[r].content \o <<"\n">>
                               \o formatTranscript(run[r].transcript,
                                                   FormatOptions)
                  /\ ~Contains(run[r].content, settings.sectionHeading))

\* C23 witness: the first run wrote the note, the second run read what it
\* wrote and aborted, and the note is still what the first run wrote.
C23_Witness ==
    /\ settings.sectionHeading # <<>>
    /\ run[1].pc = "Done"
    /\ ReadsWrittenBy(2, 1)
    /\ run[2].pc = "Aborted"
    /\ LastNotice(2) = "This note already has a transcript section"
    /\ note = run[1].data
    /\ Occurrences(note, settings.sectionHeading) = 1

\* the text that the run r writes: what it read, a newline, its fragment
WrittenBy(r) ==
    run[r].content \o <<"\n">>
       \o formatTranscript(run[r].transcript, FormatOptions)

\* C24: two invocations on the same note, interleaved in any way, never
\* leave the section in the note twice.  Runs that both read before either
\* wrote are not kept from writing: each writes the text it read plus a
\* newline plus its fragment, the note is what the later write put, and it
\* holds the heading once.  A run that reads after the other wrote aborts.
C24_NeverAppendedTwice ==
    /\ [](\A r, q \in Runs :
            /\ ((r # q /\ run[r].wrote /\ run[q].wrote) =>
                  /\ run[r].content = run[q].content
                  /\ ~Contains(run[r].content, settings.sectionHeading)
                  /\ \E p \in Runs : run[p].wrote /\ note = WrittenBy(p)
                  /\ Occurrences(note, settings.sectionHeading) = 1)
            /\ ((r # q /\ run[r].wrote /\ HasRead(q)
                   /\ run[q].content = WrittenBy(r)) =>
                  /\ run[q].pc = "Aborted"
                  /\ run[q].modifies = 0)
            /\ ((HasRead(q)
                   /\ ~Contains(run[q].content, settings.sectionHeading)) =>
                  ~InSeq(run[q].notices,
                         "This note already has a transcript section")))
    /\ [][\A r \in Runs :
            (run[r].pc = "Writing" /\ run'[r].pc = "Done") =>
                note' = WrittenBy(r)]_vars

\* C24 witness: both runs read the note before either wrote, both wrote,
\* and the note is the text read, a newline and one fragment.
C24_Witness ==
    /\ run[1].pc = "Done"
    /\ run[2].pc = "Done"
    /\ run[1].wrote
    /\ run[2].wrote
    /\ run[1].content = run[2].content
    /\ note = WrittenBy(2)
    /\ Occurrences(note, settings.sectionHeading) = 1

\* C25: the text a run writes is the text it read at its start, a newline
\* and the fragment of its entries, whatever the note holds at the time of
\* the write: the text read is never read again, the text to write is
\* fixed from it, every write puts exactly that text, and once a run has written,
\* a change the host made to the note after the read of the writer is not
\* in the note.
C25_WriteIgnoresLaterChanges ==
    /\ [](\A r \in Runs :
            (run[r].pc = "Writing" \/ run[r].wrote) =>
                run[r].data = WrittenBy(r))
    /\ [][\A r \in Runs :
            HasRead(r) => (HasRead(r)' /\ run'[r].content = run[r].content)]_vars
    /\ []((\E r \in Runs : run[r].wrote) =>
            \E p \in Runs :
               /\ run[p].wrote
               /\ note = WrittenBy(p)
               /\ (Contains(note, HostText) =>
                      Contains(run[p].content, HostText)))
    /\ [][\A r \in Runs :
            (run[r].pc = "Writing" /\ run'[r].pc = "Done") =>
                note' = WrittenBy(r)]_vars

\* C25 witness: run 1 read the note, the host changed it while the
\* retrieval of run 1 was in flight (run 2 read the changed text), run 1
\* wrote, and the note is the text run 1 read plus its fragment, without
\* the change.
C25_Witness ==
    /\ run[1].pc = "Done"
    /\ run[1].wrote
    /\ run[1].content \in Notes
    /\ HasRead(2)
    /\ ~run[2].wrote
    /\ run[2].content = run[1].content \o HostText
    /\ note = WrittenBy(1)
    /\ ~Contains(note, HostText)

====
